---- MODULE Spec2Model ----
(***************************************************************************)
(* Model of the brother-label print path: the Spool job object             *)
(* (spool.py), the idempotent transport wrapper BackendBase                *)
(* (backends/base.py) with the open/close bodies of the four backends,     *)
(* and the engine loop communicate (engine.py).                            *)
(*                                                                         *)
(* The spool file is a sequence of commands with a file position; a        *)
(* command is a record [op, arg, page] (page 0 is the job prolog).  The    *)
(* raster encoder (raster.py) and the reader (reader.py) are not part of   *)
(* the sources at hand; the encoder commands are modelled from section 4.2 *)
(* of the specification, the PackBits coding from section 4.2.1 and the    *)
(* reader from section 4.3 and tests/test_reader.py.  File-system calls on *)
(* the spool file and on the preview directory are assumed to succeed.     *)
(*                                                                         *)
(* Spec and BackendSpec run the spool and the transport; ReaderSpec runs   *)
(* the encoder and the reader on bytes (raster lines, opcodes, command     *)
(* streams, spooled jobs); ResolveSpec runs the name resolution of cli.py; *)
(* UrlSpec runs guess_backend_name and the USB device URL matching;        *)
(* RenderSpec runs the render pipeline on the labels of the catalog;       *)
(* CliSpec runs the print command of cli.py.                               *)
(***************************************************************************)
EXTENDS Integers, Sequences, FiniteSets, TLC

(***************************************************************************)
(* Bounds                                                                  *)
(***************************************************************************)
MaxPages == 2          \* pages started in one job (complete or failed)
MaxRenderPages == 2    \* pages produced by one render call
MaxCallDur == 2        \* longest duration of one backend call, in seconds
PageRows == 300        \* rows (img.size[1]) of the rendered page images

(***************************************************************************)
(* Program constants                                                       *)
(***************************************************************************)
PollTimeout == 10      \* engine.py: while time.time() - start < 10
FeedMargin == 35       \* feed_margin of label "62" (models.py)

(***************************************************************************)
(* Model catalog: one representative per capability profile of ALL_MODELS  *)
(***************************************************************************)
Model(name, mode, cut, exp, comp, two, inval) ==
    [name |-> name,
     supports_mode_setting |-> mode,
     supports_cutting |-> cut,
     supports_expanded_mode |-> exp,
     supports_compression |-> comp,
     supports_two_color |-> two,
     num_invalidate_bytes |-> inval]

ALL_MODELS ==
    { Model("QL-500", FALSE, FALSE, FALSE, FALSE, FALSE, 200),
      Model("QL-550", FALSE, TRUE, TRUE, FALSE, FALSE, 200),
      Model("QL-600", TRUE, TRUE, TRUE, TRUE, FALSE, 200),
      Model("QL-800", TRUE, TRUE, TRUE, FALSE, TRUE, 400),
      Model("QL-810W", TRUE, TRUE, TRUE, TRUE, TRUE, 400) }

VARIABLES
    model,               \* Spool._model
    auto_cut,            \* Spool._auto_cut
    compress,            \* Spool._compress
    spool_file,          \* Spool._spool_file is an open handle
    spool_fn,            \* the spool file exists on disk (Spool._spool_fn)
    spool_data,          \* contents of the spool file
    spool_pos,           \* file position of the spool file handle
    spool_dir,           \* Spool._spool_dir: the preview directory exists
    raster,              \* Spool._raster is set
    metadata_templates,  \* Spool._metadata_templates (job page numbers)
    pages,               \* pages started in this job
    last_page_default,   \* default of add_print's last-page argument
    lastOp,              \* the call that ran last, and how it ended
    fs_calls,            \* file-system release calls made by that call
    backend,             \* the class of the Backend object
    is_open,             \* BackendBase._is_open
    held,                \* transport resources the backend has acquired
    was_kernel_driver_active,  \* BackendPyUSB._was_kernel_driver_active
    do_hist,             \* the last two successful _do_open/_do_close
    last_call,           \* the last open()/close() call and what it did
    pc,                  \* position inside Spool.print / communicate
    elapsed,             \* time.time() - start
    poll_start,          \* elapsed time at which the latest read was issued
    status,              \* the status dictionary of communicate
    sent,                \* the data the latest Spool call wrote to the backend
    preview_res,         \* the list the latest Spool.preview call returned
    call_fn,             \* the library function that was called last
    call_arg,            \* its argument
    call_ret             \* what it returned or raised

callVars == <<call_fn, call_arg, call_ret>>

spoolVars == <<callVars, model, auto_cut, compress, spool_file, spool_fn, spool_data,
               spool_pos, spool_dir, raster, metadata_templates, pages,
               last_page_default, preview_res>>

backendVars == <<backend, is_open, held, was_kernel_driver_active, do_hist,
                 last_call>>

commVars == <<pc, elapsed, poll_start, status, sent>>

vars == <<spoolVars, lastOp, fs_calls, backendVars, commVars>>

(***************************************************************************)
(* The spool file as a byte sink                                           *)
(***************************************************************************)
Cmd(op, arg, page) == [op |-> op, arg |-> arg, page |-> page]

\* file.write at the current position: overwrites what is there, extends
\* the file at its end
FileWrite(fs, cmds) ==
    LET n == Len(cmds)
        p == fs.pos
        d == fs.data
    IN  [data |-> SubSeq(d, 1, p) \o cmds \o SubSeq(d, p + n + 1, Len(d)),
         pos |-> p + n]

Emit(fs, cmd) == [fs |-> FileWrite(fs, <<cmd>>), err |-> FALSE]

Unsupported(fs) == [fs |-> fs, err |-> TRUE]

(***************************************************************************)
(* Raster encoder commands (specification, section 4.2)                    *)
(***************************************************************************)
add_switch_mode(m, fs, page) ==
    IF m.supports_mode_setting
    THEN Emit(fs, Cmd("switch_mode", 1, page))
    ELSE Unsupported(fs)

add_invalidate(m, fs, page) ==
    Emit(fs, Cmd("invalidate", m.num_invalidate_bytes, page))

add_initialize(m, fs, page) == Emit(fs, Cmd("initialize", 0, page))

add_status_information(m, fs, page) ==
    Emit(fs, Cmd("status_information", 0, page))

add_media_and_quality(m, fs, page, rnumber) ==
    Emit(fs, Cmd("media_and_quality", rnumber, page))

add_autocut(m, fs, page) ==
    IF m.supports_cutting
    THEN Emit(fs, Cmd("autocut", 1, page))
    ELSE Unsupported(fs)

add_cut_every(m, fs, page, n) ==
    IF m.supports_cutting
    THEN Emit(fs, Cmd("cut_every", n, page))
    ELSE Unsupported(fs)

ExpandedFlags(dpi_600, cut_at_end, two_color) ==
    (IF dpi_600 THEN 64 ELSE 0) + (IF cut_at_end THEN 8 ELSE 0)
        + (IF two_color THEN 1 ELSE 0)

add_expanded_mode(m, fs, page, dpi_600, cut_at_end, two_color) ==
    IF m.supports_expanded_mode
    THEN Emit(fs, Cmd("expanded_mode",
                      ExpandedFlags(dpi_600, cut_at_end, two_color), page))
    ELSE Unsupported(fs)

add_margins(m, fs, page, dots) == Emit(fs, Cmd("margins", dots, page))

add_compression(m, fs, page) ==
    IF m.supports_compression
    THEN Emit(fs, Cmd("compression", 1, page))
    ELSE Unsupported(fs)

\* a page image the encoder rejects (RasterError) raises before any raster
\* line is written
add_raster_data(m, fs, page, rows, bad) ==
    IF bad THEN [fs |-> fs, err |-> TRUE]
    ELSE Emit(fs, Cmd("raster", rows, page))

add_print(m, fs, page, last_page) ==
    Emit(fs, Cmd("print", IF last_page THEN 1 ELSE 0, page))

(***************************************************************************)
(* Spool (spool.py)                                                        *)
(***************************************************************************)
\* try: <command> except BrotherQLUnsupportedCmd: pass
Swallow(r) == r.fs

\* the initialization commands inside a single try block: an unsupported
\* switch_mode skips the rest
PrologSingleTry(m, fs) ==
    LET a == add_switch_mode(m, fs, 0)
        s2 == add_invalidate(m, a.fs, 0).fs
        s3 == add_initialize(m, s2, 0).fs
    IN  IF a.err THEN a.fs ELSE Swallow(add_switch_mode(m, s3, 0))

\* Spool.__enter__, lines 122-132: the initialization commands
Prolog(m, fs) ==
    LET s1 == Swallow(add_switch_mode(m, fs, 0))
        s2 == add_invalidate(m, s1, 0).fs
        s3 == add_initialize(m, s2, 0).fs
    IN  Swallow(add_switch_mode(m, s3, 0))

\* Spool.render, lines 317-322: add_autocut and add_cut_every share one try
CutBlock(m, fs, page, cut) ==
    IF ~cut THEN fs
    ELSE LET a == add_autocut(m, fs, page)
         IN  IF a.err THEN a.fs ELSE Swallow(add_cut_every(m, a.fs, page, 1))

\* Spool.render, lines 339-343
CompressionBlock(m, fs, page, comp) ==
    IF comp THEN Swallow(add_compression(m, fs, page)) ELSE fs

\* RenderPage without the try block around the cut commands: an unsupported
\* add_autocut ends the page
RenderPageCutRaises(m, fs, page, rows, bad, cut, comp, last) ==
    LET s1 == add_status_information(m, fs, page).fs
        s2 == add_media_and_quality(m, s1, page, rows).fs
        a == add_autocut(m, s2, page)
        s3 == CutBlock(m, s2, page, cut)
        s4 == Swallow(add_expanded_mode(m, s3, page, FALSE, cut, FALSE))
        s5 == add_margins(m, s4, page, FeedMargin).fs
        s6 == CompressionBlock(m, s5, page, comp)
        s7 == add_raster_data(m, s6, page, rows, bad)
    IN  IF cut /\ a.err THEN [fs |-> a.fs, ok |-> FALSE]
        ELSE IF s7.err THEN [fs |-> s7.fs, ok |-> FALSE]
        ELSE [fs |-> add_print(m, s7.fs, page, last).fs, ok |-> TRUE]

\* RenderPage with add_margins ahead of the expanded mode command
RenderPageMarginsFirst(m, fs, page, rows, bad, cut, comp, last) ==
    LET s1 == add_status_information(m, fs, page).fs
        s2 == add_media_and_quality(m, s1, page, rows).fs
        s3 == CutBlock(m, s2, page, cut)
        s4 == add_margins(m, s3, page, FeedMargin).fs
        s5 == Swallow(add_expanded_mode(m, s4, page, FALSE, cut, FALSE))
        s6 == CompressionBlock(m, s5, page, comp)
        s7 == add_raster_data(m, s6, page, rows, bad)
    IN  IF s7.err THEN [fs |-> s7.fs, ok |-> FALSE]
        ELSE [fs |-> add_print(m, s7.fs, page, last).fs, ok |-> TRUE]

\* Spool.render, lines 296-350: the commands of one page; ok is FALSE when
\* add_raster_data raised and the page was left without its print command
RenderPage(m, fs, page, rows, bad, cut, comp, last) ==
    LET s1 == add_status_information(m, fs, page).fs
        s2 == add_media_and_quality(m, s1, page, rows).fs
        s3 == CutBlock(m, s2, page, cut)
        s4 == Swallow(add_expanded_mode(m, s3, page, FALSE, cut, FALSE))
        s5 == add_margins(m, s4, page, FeedMargin).fs
        s6 == CompressionBlock(m, s5, page, comp)
        s7 == add_raster_data(m, s6, page, rows, bad)
    IN  IF s7.err THEN [fs |-> s7.fs, ok |-> FALSE]
        ELSE [fs |-> add_print(m, s7.fs, page, last).fs, ok |-> TRUE]

\* Spool.render, the loop over the images of one object: n images, image
\* number failAt (0: none) is rejected by add_raster_data
RECURSIVE RenderLoop(_, _, _, _, _, _, _, _, _)
RenderLoop(m, st, i, n, failAt, rows, cut, comp, last) ==
    IF i > n THEN [st EXCEPT !.ok = TRUE]
    ELSE LET page == st.pages + 1
             r == RenderPage(m, st.fs, page, rows, i = failAt, cut, comp, last)
         IN  IF ~r.ok
             THEN [fs |-> r.fs, meta |-> st.meta, pages |-> page, ok |-> FALSE]
             ELSE RenderLoop(m, [fs |-> r.fs,
                                 meta |-> Append(st.meta, page),
                                 pages |-> page, ok |-> TRUE],
                             i + 1, n, failAt, rows, cut, comp, last)

(***************************************************************************)
(* Backends (backends/base.py, pyusb.py, network.py, linux.py, file.py)    *)
(***************************************************************************)
ALL_BACKEND_NAMES == {"pyusb", "network", "linux", "file"}

\* supports_read: BackendBase returns True, BackendNetwork and BackendFile
\* override it with False
supports_read(b) == b \notin {"network", "file"}

\* the resource a backend acquires first in _do_open
Handle(b) ==
    CASE b = "pyusb" -> "usb_device"
      [] b = "network" -> "socket"
      [] OTHER -> "fd"

\* a backend whose _do_open makes further calls after its first acquisition
HasLateOpenFailure(b) == b \in {"pyusb", "network"}

\* _do_open of backend b holding h.  early: the device lookup, the URL
\* check or the open call itself fails; late: a later call fails
\* (set_configuration, a missing interface or endpoint, connect);
\* kernel: the kernel driver is bound to the USB interface
DoOpen(b, h, was, early, late, kernel) ==
    IF early THEN [ok |-> FALSE, held |-> h, was |-> was]
    ELSE LET detach == b = "pyusb" /\ kernel /\ "kernel_driver" \notin h
             h1 == h \cup {Handle(b)}
                     \cup (IF detach THEN {"kernel_driver"} ELSE {})
             w1 == IF b = "pyusb" THEN detach ELSE was
         IN  [ok |-> ~(late /\ HasLateOpenFailure(b)), held |-> h1, was |-> w1]

\* _do_close of backend b holding h; fails: attach_kernel_driver, shutdown
\* or close raises
DoClose(b, h, was, fails) ==
    IF fails THEN [ok |-> FALSE, held |-> h]
    ELSE [ok |-> TRUE,
          held |-> (h \ {Handle(b)})
                     \ (IF b = "pyusb" /\ was THEN {"kernel_driver"} ELSE {})]

PushDo(hist, a) == <<hist[2], a>>

\* open() without the _is_open check
OpenGuardAlways(open) == TRUE

\* BackendBase.open: the underlying open only when the backend is closed
OpenGuard(open) == ~open

\* BackendBase.close: the underlying close only when the backend is open
CloseGuard(open) == open

\* BackendBase.open; TRUE in ok' when open() returned
BackendOpenBody(early, late, kernel, ok) ==
    IF OpenGuard(is_open)
    THEN LET r == DoOpen(backend, held, was_kernel_driver_active,
                         early, late, kernel)
         IN  /\ held' = r.held
             /\ was_kernel_driver_active' = r.was
             /\ is_open' = r.ok
             /\ do_hist' = IF r.ok THEN PushDo(do_hist, "open") ELSE do_hist
             /\ last_call' = [op |-> "open", was_open |-> is_open,
                              did |-> TRUE]
             /\ ok = r.ok
    ELSE /\ UNCHANGED <<held, was_kernel_driver_active, is_open, do_hist>>
         /\ last_call' = [op |-> "open", was_open |-> is_open, did |-> FALSE]
         /\ ok = TRUE

\* BackendBase.close
BackendCloseBody(fails, ok) ==
    IF CloseGuard(is_open)
    THEN LET r == DoClose(backend, held, was_kernel_driver_active, fails)
         IN  /\ held' = r.held
             /\ is_open' = ~r.ok
             /\ do_hist' = IF r.ok THEN PushDo(do_hist, "close") ELSE do_hist
             /\ last_call' = [op |-> "close", was_open |-> is_open,
                              did |-> TRUE]
             /\ ok = r.ok
             /\ UNCHANGED was_kernel_driver_active
    ELSE /\ UNCHANGED <<held, was_kernel_driver_active, is_open, do_hist>>
         /\ last_call' = [op |-> "close", was_open |-> is_open, did |-> FALSE]
         /\ ok = TRUE

OpenInputs == BOOLEAN \X BOOLEAN \X BOOLEAN

(***************************************************************************)
(* communicate (engine.py)                                                 *)
(***************************************************************************)
InitialStatus ==
    [outcome |-> "unknown", printer_state |-> "none",
     did_print |-> FALSE, ready_for_next_job |-> FALSE]

\* results of backend.read(): no data, data interpret_response rejects, a
\* reply with error bits, "Printing completed", "Phase change" with phase
\* "Waiting to receive", any other reply
ReadResults == {"nodata", "garbage", "error", "completed", "waiting", "other"}

CallDurs == 1..MaxCallDur

\* the loop condition with the deadline included
LoopCondInclusive(e) == e <= PollTimeout

\* the loop condition, line 49
LoopCond(e) == e < PollTimeout

\* lines 63-76: the status after a reply that was interpreted
UpdateStatus(st, r) ==
    IF r = "error"
    THEN [st EXCEPT !.printer_state = r, !.outcome = "error"]
    ELSE [st EXCEPT !.printer_state = r,
                    !.did_print = st.did_print \/ r = "completed",
                    !.outcome = IF r = "completed" THEN "printed"
                                ELSE st.outcome,
                    !.ready_for_next_job =
                        st.ready_for_next_job \/ r = "waiting"]

\* the loop is left on an error reply only
BreaksOnError(st, r) == r = "error"

\* lines 65-68 and 77-78: the loop is left
Breaks(st, r) ==
    \/ r = "error"
    \/ UpdateStatus(st, r).did_print /\ UpdateStatus(st, r).ready_for_next_job

\* print without the seek to the start of the spool file
SeekStartNone(fs) == fs

\* seek(0, 0) and seek(0, 2) on the spool file
SeekStart(fs) == [fs EXCEPT !.pos = 0]

\* the position is left where it is
SeekEndStay(fs) == [fs EXCEPT !.pos = fs.pos]

SeekEnd(fs) == [fs EXCEPT !.pos = Len(fs.data)]

\* file.read(): everything from the position to the end
FileRead(fs) ==
    [out |-> SubSeq(fs.data, fs.pos + 1, Len(fs.data)), fs |-> SeekEnd(fs)]

\* the name spool{counter:04d}.png as its sequence of digits
FileName(counter) ==
    (IF counter >= 10000 THEN <<counter \div 10000>> ELSE <<>>)
        \o <<(counter \div 1000) % 10, (counter \div 100) % 10,
             (counter \div 10) % 10, counter % 10>>

\* string comparison of two names
NameLess(a, b) ==
    \/ \E k \in 1..Len(a) :
           /\ k <= Len(b)
           /\ a[k] < b[k]
           /\ \A j \in 1..(k - 1) : a[j] = b[j]
    \/ Len(a) < Len(b) /\ \A j \in 1..Len(a) : a[j] = b[j]

IsPrintCmd(c) == c.op = "print"

\* BrotherQLReader.analyse on the commands read from the spool file: one
\* image file per print command, named by the page counter, holding the
\* page that was printed
analyse(cmds) ==
    LET prints == SelectSeq(cmds, IsPrintCmd)
    IN  {[name |-> FileName(i), image |-> prints[i].page] :
            i \in DOMAIN prints}

\* sorted(os.listdir(...)) in descending order
sorted_reverse(files) ==
    [i \in 1..Cardinality(files) |->
        CHOOSE f \in files :
            Cardinality({g \in files : NameLess(f.name, g.name)}) = i - 1]

\* sorted(os.listdir(self._spool_dir.name))
sorted(files) ==
    [i \in 1..Cardinality(files) |->
        CHOOSE f \in files :
            Cardinality({g \in files : NameLess(g.name, f.name)}) = i - 1]

\* Spool.preview, lines 400-409: the metadata of page i with the i-th file
\* name; ok is FALSE when the assertion fails
PreviewList(files, meta) ==
    LET fl == sorted(files)
    IN  IF Len(fl) > Len(meta) THEN [ok |-> FALSE, res |-> <<>>]
        ELSE [ok |-> TRUE,
              res |-> [i \in 1..Len(fl) |->
                          [label |-> meta[i],
                           image_filename |-> fl[i].name,
                           image |-> fl[i].image]]]

(***************************************************************************)
(* Spool operations                                                        *)
(***************************************************************************)
Cleared ==
    /\ ~spool_file
    /\ ~spool_fn
    /\ ~spool_dir
    /\ ~raster
    /\ metadata_templates = <<>>

\* Spool.__init__ and BackendBase.__init__: everything but the model
InitFields ==
    /\ auto_cut = TRUE
    /\ compress = TRUE
    /\ spool_file = FALSE
    /\ spool_fn = FALSE
    /\ spool_data = <<>>
    /\ spool_pos = 0
    /\ spool_dir = FALSE
    /\ raster = FALSE
    /\ metadata_templates = <<>>
    /\ pages = 0
    /\ lastOp = "init"
    /\ fs_calls = 0
    /\ is_open = FALSE
    /\ held = {}
    /\ was_kernel_driver_active = TRUE
    /\ do_hist = <<"none", "none">>
    /\ last_call = [op |-> "none", was_open |-> FALSE, did |-> FALSE]
    /\ pc = "idle"
    /\ elapsed = 0
    /\ poll_start = -1
    /\ status = InitialStatus
    /\ sent = <<>>
    /\ preview_res = <<>>

\* Spool.__init__ and BackendBase.__init__
InitObjects ==
    /\ model \in ALL_MODELS
    /\ InitFields

\* no library function has been called
NoCall ==
    /\ call_fn = "none"
    /\ call_arg = <<>>
    /\ call_ret = <<>>

\* the life of a job that is printed to a file; the last-page default of
\* add_print has no influence on it (BackendSpec covers both defaults)
Init ==
    /\ InitObjects
    /\ NoCall
    /\ backend = "file"
    /\ last_page_default = TRUE

\* Spool.__enter__
Enter ==
    /\ pc = "idle"
    /\ ~spool_file
    /\ spool_file' = TRUE
    /\ spool_fn' = TRUE
    /\ raster' = TRUE
    /\ LET fs == Prolog(model, [data |-> <<>>, pos |-> 0])
       IN  /\ spool_data' = fs.data
           /\ spool_pos' = fs.pos
    /\ pages' = 0
    /\ lastOp' = "enter"
    /\ fs_calls' = 0
    /\ UNCHANGED <<callVars, model, auto_cut, compress, spool_dir,
                   metadata_templates, last_page_default, backendVars, pc,
                   elapsed, poll_start, status>>
    /\ sent' = <<>>
    /\ preview_res' = <<>>

\* Spool.auto_cut setter
SetAutoCut(v) ==
    /\ pc = "idle"
    /\ auto_cut' = v
    /\ lastOp' = "set"
    /\ preview_res' = <<>>
    /\ UNCHANGED <<callVars, model, compress, spool_file, spool_fn,
                   spool_data, spool_pos, spool_dir, raster,
                   metadata_templates, pages, last_page_default, fs_calls,
                   backendVars, commVars>>

\* Spool.compress setter
SetCompress(v) ==
    /\ pc = "idle"
    /\ compress' = v
    /\ lastOp' = "set"
    /\ preview_res' = <<>>
    /\ UNCHANGED <<callVars, model, auto_cut, spool_file, spool_fn,
                   spool_data, spool_pos, spool_dir, raster,
                   metadata_templates, pages, last_page_default, fs_calls,
                   backendVars, commVars>>

\* Spool.render of an object with n pages; the image of page failAt
\* (0: none) is rejected by the encoder
Render(n, failAt) ==
    /\ pc = "idle"
    /\ spool_file
    /\ raster
    /\ pages + n <= MaxPages
    /\ LET r == RenderLoop(model,
                           [fs |-> [data |-> spool_data, pos |-> spool_pos],
                            meta |-> metadata_templates,
                            pages |-> pages, ok |-> TRUE],
                           1, n, failAt, PageRows, auto_cut, compress,
                           last_page_default)
       IN  /\ spool_data' = r.fs.data
           /\ spool_pos' = r.fs.pos
           /\ metadata_templates' = r.meta
           /\ pages' = r.pages
           /\ lastOp' = IF r.ok THEN "render" ELSE "render_raised"
    /\ fs_calls' = 0
    /\ UNCHANGED <<callVars, model, auto_cut, compress, spool_file, spool_fn,
                   spool_dir, raster, last_page_default, backendVars, pc,
                   elapsed, poll_start, status>>
    /\ sent' = <<>>
    /\ preview_res' = <<>>

\* Spool.preview on an entered spool: the reader parses the whole file and
\* the position is put back to the end
Preview ==
    /\ pc = "idle"
    /\ spool_file
    /\ spool_dir' = TRUE
    /\ LET rd == FileRead(SeekStart([data |-> spool_data, pos |-> spool_pos]))
           r == PreviewList(analyse(rd.out), metadata_templates)
       IN  /\ spool_pos' = SeekEnd(rd.fs).pos
           /\ lastOp' = IF r.ok THEN "preview" ELSE "preview_raised"
           /\ preview_res' = r.res
    /\ fs_calls' = IF spool_dir THEN 1 ELSE 0
    /\ UNCHANGED <<callVars, model, auto_cut, compress, spool_file, spool_fn,
                   spool_data, raster, metadata_templates, pages,
                   last_page_default, backendVars, pc, elapsed, poll_start,
                   status>>
    /\ sent' = <<>>

\* Spool.preview on a spool without a spool file: the directory is created,
\* then seek raises AttributeError
PreviewNoFile ==
    /\ pc = "idle"
    /\ ~spool_file
    /\ spool_dir' = TRUE
    /\ lastOp' = "preview_raised"
    /\ fs_calls' = IF spool_dir THEN 1 ELSE 0
    /\ UNCHANGED <<callVars, model, auto_cut, compress, spool_file, spool_fn,
                   spool_data, spool_pos, raster, metadata_templates, pages,
                   last_page_default, backendVars, pc, elapsed, poll_start,
                   status>>
    /\ sent' = <<>>
    /\ preview_res' = <<>>

\* cleanup that leaves the preview directory behind
CleanupBodyKeepDir(how) ==
    /\ spool_file' = FALSE
    /\ spool_fn' = FALSE
    /\ spool_data' = <<>>
    /\ spool_pos' = 0
    /\ raster' = FALSE
    /\ metadata_templates' = <<>>
    /\ pages' = 0
    /\ lastOp' = how
    /\ fs_calls' = (IF spool_file THEN 1 ELSE 0) + (IF spool_fn THEN 1 ELSE 0)
    /\ sent' = <<>>
    /\ preview_res' = <<>>
    /\ UNCHANGED <<callVars, model, auto_cut, compress, last_page_default,
                   backendVars, pc, elapsed, poll_start, status, spool_dir>>

\* Spool.cleanup, lines 98-114
CleanupBody(how) ==
    /\ spool_file' = FALSE
    /\ spool_fn' = FALSE
    /\ spool_data' = <<>>
    /\ spool_pos' = 0
    /\ spool_dir' = FALSE
    /\ raster' = FALSE
    /\ metadata_templates' = <<>>
    /\ pages' = 0
    /\ lastOp' = how
    /\ fs_calls' = (IF spool_file THEN 1 ELSE 0) + (IF spool_fn THEN 1 ELSE 0)
                       + (IF spool_dir THEN 1 ELSE 0)
    /\ sent' = <<>>
    /\ preview_res' = <<>>
    /\ UNCHANGED <<callVars, model, auto_cut, compress, last_page_default,
                   backendVars, pc, elapsed, poll_start, status>>

Cleanup ==
    /\ pc = "idle"
    /\ CleanupBody("cleanup")

\* Spool.__exit__, reached by leaving the with block normally or by an
\* exception raised inside it
Exit(exc) ==
    /\ pc = "idle"
    /\ spool_file
    /\ CleanupBody(IF exc THEN "exit_exc" ELSE "exit")

(***************************************************************************)
(* Spool.print and communicate, step by step                               *)
(***************************************************************************)
\* Spool.print up to the end of backend.__enter__ (lines 413-415); when
\* open() raises, the finally clause seeks to the end and print raises
PrintEnter(early, late, kernel) ==
    /\ pc = "idle"
    /\ spool_file
    /\ \E ok \in BOOLEAN :
        /\ BackendOpenBody(early, late, kernel, ok)
        /\ LET fs == SeekStart([data |-> spool_data, pos |-> spool_pos])
           IN  spool_pos' = IF ok THEN fs.pos ELSE SeekEnd(fs).pos
        /\ pc' = IF ok THEN "write" ELSE "idle"
        /\ lastOp' = IF ok THEN "printing" ELSE "print_raised"
    /\ fs_calls' = 0
    /\ sent' = <<>>
    /\ preview_res' = <<>>
    /\ status' = InitialStatus
    /\ elapsed' = 0
    /\ poll_start' = -1
    /\ UNCHANGED <<callVars, model, auto_cut, compress, spool_file, spool_fn,
                   spool_data, spool_dir, raster, metadata_templates, pages,
                   last_page_default, backend>>

\* communicate, lines 34-47: the spool file is read and written in one
\* backend.write call that takes d seconds
CommWrite(fails, d) ==
    /\ pc = "write"
    /\ LET r == FileRead([data |-> spool_data, pos |-> spool_pos])
       IN  /\ spool_pos' = r.fs.pos
           /\ sent' = IF fails THEN sent ELSE Append(sent, r.out)
    /\ elapsed' = d
    /\ status' = IF fails THEN status ELSE [status EXCEPT !.outcome = "sent"]
    /\ pc' = IF fails THEN "exit_exc"
             ELSE IF supports_read(backend) THEN "poll" ELSE "exit"
    /\ UNCHANGED <<callVars, model, auto_cut, compress, spool_file, spool_fn,
                   spool_data, spool_dir, raster, metadata_templates, pages,
                   last_page_default, preview_res, lastOp, fs_calls,
                   backendVars, poll_start>>

\* communicate, lines 49-78: one iteration of the polling loop; the read
\* returns r after d seconds
CommPoll(r, d) ==
    /\ pc = "poll"
    /\ LoopCond(elapsed)
    /\ poll_start' = elapsed
    /\ elapsed' = elapsed + d
    /\ IF r \in {"nodata", "garbage"}
       THEN UNCHANGED <<status, pc>>
       ELSE /\ status' = UpdateStatus(status, r)
            /\ pc' = IF Breaks(status, r) THEN "exit" ELSE "poll"
    /\ UNCHANGED <<spoolVars, lastOp, fs_calls, backendVars, sent>>

\* backend.read() raises inside the polling loop
CommReadRaises(d) ==
    /\ pc = "poll"
    /\ LoopCond(elapsed)
    /\ poll_start' = elapsed
    /\ elapsed' = elapsed + d
    /\ pc' = "exit_exc"
    /\ UNCHANGED <<spoolVars, lastOp, fs_calls, backendVars, status, sent>>

\* communicate, line 49: the loop condition fails and communicate returns
CommTimeout ==
    /\ pc = "poll"
    /\ ~LoopCond(elapsed)
    /\ pc' = "exit"
    /\ UNCHANGED <<spoolVars, lastOp, fs_calls, backendVars, elapsed,
                   poll_start, status, sent>>

\* Spool.print, lines 415-418: backend.__exit__ closes the backend and the
\* finally clause seeks to the end; the locals of communicate are gone
PrintExit(fails) ==
    /\ pc \in {"exit", "exit_exc"}
    /\ \E ok \in BOOLEAN :
        /\ BackendCloseBody(fails, ok)
        /\ lastOp' = IF ok /\ pc = "exit" THEN "print" ELSE "print_raised"
    /\ spool_pos' = SeekEnd([data |-> spool_data, pos |-> spool_pos]).pos
    /\ pc' = "idle"
    /\ elapsed' = 0
    /\ poll_start' = -1
    /\ status' = InitialStatus
    /\ UNCHANGED <<callVars, model, auto_cut, compress, spool_file, spool_fn,
                   spool_data, spool_dir, raster, metadata_templates, pages,
                   last_page_default, preview_res, fs_calls, backend, sent>>

\* backend.open() called by the owner of the backend
BackendOpen(early, late, kernel) ==
    /\ pc = "idle"
    /\ \E ok \in BOOLEAN : BackendOpenBody(early, late, kernel, ok)
    /\ lastOp' = "open"
    /\ UNCHANGED <<spoolVars, fs_calls, backend, commVars>>

\* backend.close() called by the owner of the backend
BackendClose(fails) ==
    /\ pc = "idle"
    /\ \E ok \in BOOLEAN : BackendCloseBody(fails, ok)
    /\ lastOp' = "close"
    /\ UNCHANGED <<spoolVars, fs_calls, backend, commVars>>

(***************************************************************************)
(* Specifications                                                          *)
(***************************************************************************)
Next ==
    \/ Enter
    \/ \E v \in BOOLEAN : SetAutoCut(v)
    \/ \E v \in BOOLEAN : SetCompress(v)
    \/ \E n \in 1..MaxRenderPages : \E failAt \in 0..n : Render(n, failAt)
    \/ Preview
    \/ PreviewNoFile
    \/ Cleanup
    \/ \E exc \in BOOLEAN : Exit(exc)
    \/ \E in \in OpenInputs : PrintEnter(in[1], in[2], in[3])
    \/ \E fails \in BOOLEAN : \E d \in CallDurs : CommWrite(fails, d)
    \/ \E fails \in BOOLEAN : PrintExit(fails)

Spec == Init /\ [][Next]_vars

\* the jobs that Enter and one render call with default settings produce
RenderedJob(m, n, last) ==
    RenderLoop(m, [fs |-> Prolog(m, [data |-> <<>>, pos |-> 0]),
                   meta |-> <<>>, pages |-> 0, ok |-> TRUE],
               1, n, 0, PageRows, TRUE, TRUE, last)

\* a backend of any class and a spool that holds a rendered job
BackendInit ==
    /\ backend \in ALL_BACKEND_NAMES
    /\ model \in ALL_MODELS
    /\ last_page_default \in BOOLEAN
    /\ \E n \in 0..MaxRenderPages :
        LET job == RenderedJob(model, n, last_page_default)
        IN  /\ spool_data = job.fs.data
            /\ spool_pos = job.fs.pos
            /\ metadata_templates = job.meta
            /\ pages = job.pages
            /\ lastOp = IF n = 0 THEN "enter" ELSE "render"
    /\ auto_cut = TRUE
    /\ compress = TRUE
    /\ spool_file = TRUE
    /\ spool_fn = TRUE
    /\ spool_dir = FALSE
    /\ raster = TRUE
    /\ fs_calls = 0
    /\ is_open = FALSE
    /\ held = {}
    /\ was_kernel_driver_active = TRUE
    /\ do_hist = <<"none", "none">>
    /\ last_call = [op |-> "none", was_open |-> FALSE, did |-> FALSE]
    /\ pc = "idle"
    /\ elapsed = 0
    /\ poll_start = -1
    /\ status = InitialStatus
    /\ sent = <<>>
    /\ preview_res = <<>>
    /\ NoCall

BackendNext ==
    \/ \E in \in OpenInputs : BackendOpen(in[1], in[2], in[3])
    \/ \E fails \in BOOLEAN : BackendClose(fails)
    \/ \E in \in OpenInputs : PrintEnter(in[1], in[2], in[3])
    \/ \E fails \in BOOLEAN : \E d \in CallDurs : CommWrite(fails, d)
    \/ \E r \in ReadResults : \E d \in CallDurs : CommPoll(r, d)
    \/ \E d \in CallDurs : CommReadRaises(d)
    \/ CommTimeout
    \/ \E fails \in BOOLEAN : PrintExit(fails)

BackendSpec == BackendInit /\ [][BackendNext]_vars

\* every backend call returns, so the loop of communicate keeps running
FairBackendSpec ==
    /\ BackendSpec
    /\ WF_vars(\E r \in ReadResults : \E d \in CallDurs : CommPoll(r, d))
    /\ WF_vars(CommTimeout)

(***************************************************************************)
(* PackBits (specification, section 4.2.1); bytes are numbers 0..255       *)
(***************************************************************************)
Min(a, b) == IF a < b THEN a ELSE b

\* a packet that may cover one byte more than the format can express
MaxPacketLoose == 128 + 1

\* the largest number of bytes one run or literal packet covers
MaxPacket == 128

\* the first k in lo..hi with P[k], hi + 1 when there is none; P is a
\* function on lo..hi
FirstTrue(P, lo, hi) ==
    IF \E k \in lo..hi : P[k]
    THEN CHOOSE k \in lo..hi : P[k] /\ \A j \in lo..(k - 1) : ~P[j]
    ELSE hi + 1

\* the number of equal bytes from position i on, at most cap
RunLen(B, i, cap) ==
    LET hi == Min(Len(B), i + cap - 1)
    IN  FirstTrue([k \in (i + 1)..hi |-> B[k] # B[i]], i + 1, hi) - i

\* a run of at least two equal bytes starts at position j
StartsRun(B, j) == j < Len(B) /\ B[j] = B[j + 1]

\* the length of the literal span from position i on: it ends before the
\* next run and after cap bytes
LitLen(B, i, cap) ==
    LET hi == Min(Len(B), i + cap - 1)
    IN  FirstTrue([k \in (i + 1)..hi |-> StartsRun(B, k)], i + 1, hi) - i

RECURSIVE EncodeFrom(_, _)
EncodeFrom(B, i) ==
    IF i > Len(B) THEN <<>>
    ELSE LET r == RunLen(B, i, MaxPacket)
             l == LitLen(B, i, MaxPacket)
         IN  IF r >= 2
             THEN <<257 - r, B[i]>> \o EncodeFrom(B, i + r)
             ELSE <<l - 1>> \o SubSeq(B, i, i + l - 1) \o EncodeFrom(B, i + l)

\* runs of n >= 2 equal bytes as (257 - n, byte), literal spans of n >= 1
\* bytes as (n - 1, bytes)
packbits_encode(B) == EncodeFrom(B, 1)

RECURSIVE DecodeFrom(_, _)
DecodeFrom(E, i) ==
    IF i > Len(E) THEN <<>>
    ELSE LET c == E[i]
         IN  IF c < 128
             THEN SubSeq(E, i + 1, Min(i + 1 + c, Len(E)))
                      \o DecodeFrom(E, i + c + 2)
             ELSE IF c = 128 \/ i = Len(E)
             THEN DecodeFrom(E, i + 1)
             ELSE [k \in 1..(257 - c) |-> E[i + 1]] \o DecodeFrom(E, i + 2)

\* the inverse of packbits_encode; the control byte 128 stands for nothing
packbits_decode(E) == DecodeFrom(E, 1)

(***************************************************************************)
(* Wire format of the encoder commands (specification, section 4.2; the    *)
(* opcode bytes of media_and_quality and of the two raster line forms are  *)
(* those of tests/test_reader.py)                                          *)
(***************************************************************************)
\* n bytes b
Run(b, n) == [i \in 1..n |-> b]

\* the P-touch model with the narrowest raster line, and the profiles of
\* ALL_MODELS that differ in what Spool.render writes
ModelPT == Model("PT-P750W", TRUE, TRUE, TRUE, TRUE, FALSE, 200)

IsPT(m) == m.name = "PT-P750W"

\* every model with the raster line of the P-touch models
number_bytes_per_row_narrow(m) == IF IsPT(m) THEN 16 ELSE 16

\* Model.number_bytes_per_row: 90 unless the catalog entry sets it
number_bytes_per_row(m) ==
    CASE m.name \in {"PT-P750W", "PT-E550W"} -> 16
      [] m.name \in {"PT-P900W", "PT-P950NW"} -> 70
      [] m.name \in {"QL-1050", "QL-1060N", "QL-1100", "QL-1100NWB",
                     "QL-1115NWB"} -> 162
      [] OTHER -> 90

\* the concatenation of the sequences ss[lo], ..., ss[hi]
RECURSIVE Flat(_, _, _)
Flat(ss, lo, hi) ==
    IF lo > hi THEN <<>>
    ELSE IF lo = hi THEN ss[lo]
    ELSE LET mid == (lo + hi) \div 2
         IN  Flat(ss, lo, mid) \o Flat(ss, mid + 1, hi)

Concat(ss) == Flat(ss, 1, Len(ss))

LE16(n) == <<n % 256, (n \div 256) % 256>>

LE32(n) == <<n % 256, (n \div 256) % 256, (n \div 65536) % 256,
             (n \div 16777216) % 256>>

\* row y of a page image of the named pattern, n bytes wide
Row(pat, y, n) ==
    CASE pat = "white" -> Run(0, n)
      [] pat = "stripes" -> Run(IF y % 2 = 1 THEN 255 ELSE 0, n)
      [] pat = "bar" -> [k \in 1..n |-> IF k <= n \div 2 THEN 170 ELSE 0]
      [] OTHER -> [k \in 1..n |-> (7 * k + y) % 256]

Patterns == {"white", "stripes", "bar", "noise"}

\* RowChunk that never compresses
RowChunkRaw(m, row, comp) ==
    IF IsPT(m) THEN <<71>> \o LE16(Len(row)) \o row
    ELSE <<103, 0, Len(row)>> \o row

\* one raster line: the P-touch form with a 16-bit little-endian length,
\* the QL form with a zero byte and a one-byte length
RowChunk(m, row, comp) ==
    LET d == IF comp THEN packbits_encode(row) ELSE row
    IN  IF IsPT(m) THEN <<71>> \o LE16(Len(d)) \o d
        ELSE <<103, 0, Len(d)>> \o d

\* the commands on the wire that the encoder writes for command c; comp:
\* compression has been switched on; pat: the pattern of the page image
WireOf(m, c, comp, pat) ==
    CASE c.op = "switch_mode" -> << <<27, 105, 97, c.arg>> >>
      [] c.op = "invalidate" -> << Run(0, c.arg) >>
      [] c.op = "initialize" -> << <<27, 64>> >>
      [] c.op = "status_information" -> << <<27, 105, 83>> >>
      [] c.op = "media_and_quality" ->
            << <<27, 105, 122, 206, 10, 62, 0>> \o LE32(c.arg)
                   \o <<IF c.page = 1 THEN 0 ELSE 1, 0>> >>
      [] c.op = "autocut" -> << <<27, 105, 77, 64>> >>
      [] c.op = "cut_every" -> << <<27, 105, 65, c.arg>> >>
      [] c.op = "expanded_mode" -> << <<27, 105, 75, c.arg>> >>
      [] c.op = "margins" -> << <<27, 105, 100>> \o LE16(c.arg) >>
      [] c.op = "compression" -> << <<77, 2>> >>
      [] c.op = "raster" ->
            [y \in 1..c.arg |->
                RowChunk(m, Row(pat, y, number_bytes_per_row(m)), comp)]
      [] OTHER -> << <<IF c.arg = 1 THEN 27 ELSE 26>> >>

\* the encoder compresses once add_compression has succeeded
CompressionOn(cmds, i) == \E j \in 1..(i - 1) : cmds[j].op = "compression"

\* the wire commands of the spool file cmds, in order; pats[p] is the
\* pattern of the image of page p
WireCommands(m, cmds, pats) ==
    Concat([i \in DOMAIN cmds |->
               WireOf(m, cmds[i], CompressionOn(cmds, i),
                      IF cmds[i].page \in DOMAIN pats
                      THEN pats[cmds[i].page] ELSE "white")])

(***************************************************************************)
(* The reader (specification, section 4.3; tests/test_reader.py)           *)
(***************************************************************************)
Opcode(sig, name, following) ==
    [sig |-> sig, name |-> name, following |-> following]

\* the commands of section 4.2 and the opcodes the tests name
OPCODES ==
    { Opcode(<<0>>, "invalidate", -1),
      Opcode(<<27, 64>>, "initialize", 0),
      Opcode(<<27, 105, 97>>, "switch_mode", 1),
      Opcode(<<27, 105, 83>>, "status_information", 0),
      Opcode(<<27, 105, 122>>, "media_and_quality", 10),
      Opcode(<<27, 105, 77>>, "autocut", 1),
      Opcode(<<27, 105, 65>>, "cut_every", 1),
      Opcode(<<27, 105, 75>>, "expanded_mode", 1),
      Opcode(<<27, 105, 100>>, "margins", 2),
      Opcode(<<27, 105, 88, 71>>, "request_config", 0),
      Opcode(<<77>>, "compression", 1),
      Opcode(<<103, 0>>, "raster", -1),
      Opcode(<<71>>, "raster_pt", -1),
      Opcode(<<26>>, "print", 0),
      Opcode(<<27>>, "print_last", 0) }

IsPrefixAt(sig, data, pos) ==
    /\ pos + Len(sig) - 1 <= Len(data)
    /\ \A k \in 1..Len(sig) : data[pos + k - 1] = sig[k]

Matching(data, pos) == {e \in OPCODES : IsPrefixAt(e.sig, data, pos)}

UnknownOpcode == Opcode(<<>>, "unknown", 0)

\* the shortest opcode of the table that the data start with at pos
match_opcode_shortest(data, pos) ==
    IF Matching(data, pos) = {} THEN UnknownOpcode
    ELSE CHOOSE e \in Matching(data, pos) :
             \A f \in Matching(data, pos) : Len(e.sig) <= Len(f.sig)

\* the longest opcode of the table that the data start with at pos
match_opcode(data, pos) ==
    IF Matching(data, pos) = {} THEN UnknownOpcode
    ELSE CHOOSE e \in Matching(data, pos) :
             \A f \in Matching(data, pos) : Len(f.sig) <= Len(e.sig)

\* ChunkLen with a 16-bit little-endian length for both raster line forms
ChunkLenLE16(data, pos, e) ==
    CASE e.name = "invalidate" ->
            FirstTrue([k \in pos..Len(data) |-> data[k] # 0], pos, Len(data))
                - pos
      [] e.name \in {"raster", "raster_pt"} ->
            3 + data[pos + 1] + 256 * data[pos + 2]
      [] OTHER -> Len(e.sig) + e.following

\* the length of the chunk of opcode e that starts at pos: a QL raster
\* line (67 00) has a one-byte length at pos + 2, a P-touch raster line
\* (47) a 16-bit little-endian length at pos + 1
ChunkLen(data, pos, e) ==
    CASE e.name = "invalidate" ->
            FirstTrue([k \in pos..Len(data) |-> data[k] # 0], pos, Len(data))
                - pos
      [] e.name = "raster" -> 3 + data[pos + 2]
      [] e.name = "raster_pt" -> 3 + data[pos + 1] + 256 * data[pos + 2]
      [] OTHER -> Len(e.sig) + e.following

\* the next chunk: its opcode and last position, or the error
chunker(data, pos) ==
    LET e == match_opcode(data, pos)
        short == e.following = -1 /\ e.name # "invalidate"
                     /\ pos + 2 > Len(data)
        last == pos + ChunkLen(data, pos, e) - 1
    IN  IF e = UnknownOpcode
        THEN [err |-> "MalformedInput", e |-> e, last |-> pos - 1]
        ELSE IF short \/ last > Len(data)
        THEN [err |-> "NeedMore", e |-> e, last |-> pos - 1]
        ELSE [err |-> "none", e |-> e, last |-> last]

NewReader ==
    [pos |-> 1, chunks |-> <<>>, compression |-> FALSE, height |-> 0,
     canvas |-> <<>>, images |-> <<>>, err |-> "none"]

FromLE32(data, i) ==
    data[i] + 256 * data[i + 1] + 65536 * data[i + 2]
        + 16777216 * data[i + 3]

\* the page image the reader hands out at a print command: the canvas of
\* the height media_and_quality gave, blank below the rows that were written
PageImage(rd) ==
    LET w == IF rd.canvas = <<>> THEN 0 ELSE Len(rd.canvas[1])
    IN  [width |-> 8 * w, height |-> rd.height,
         rows |-> [y \in 1..rd.height |->
                      IF y <= Len(rd.canvas) THEN rd.canvas[y]
                      ELSE Run(0, w)]]

\* the reader takes one chunk off the data and interprets it
ReadChunk(rd, data) ==
    LET c == chunker(data, rd.pos)
        first == rd.pos
        payload == SubSeq(data, first + 3, c.last)
        row == IF rd.compression THEN packbits_decode(payload) ELSE payload
        r1 == [rd EXCEPT !.pos = c.last + 1,
                         !.chunks = Append(@, <<first, c.last>>)]
    IN  IF c.err # "none" THEN [rd EXCEPT !.err = c.err]
        ELSE CASE c.e.name = "compression" ->
                    [r1 EXCEPT !.compression = data[first + 1] = 2]
               [] c.e.name = "media_and_quality" ->
                    [r1 EXCEPT !.height = FromLE32(data, first + 7),
                               !.canvas = <<>>]
               [] c.e.name \in {"raster", "raster_pt"} ->
                    [r1 EXCEPT !.canvas = IF Len(@) < rd.height
                                          THEN Append(@, row) ELSE @]
               [] c.e.name \in {"print", "print_last"} ->
                    [r1 EXCEPT !.images = Append(@, PageImage(rd)),
                               !.canvas = <<>>]
               [] OTHER -> r1

(***************************************************************************)
(* Calls of the reader and encoder functions on given inputs               *)
(***************************************************************************)
MaxLineLen == 5        \* length of the lines that are enumerated in full

LineBytes == {170, 187}

\* n bytes without two equal neighbours
Alternating(n) == [i \in 1..n |-> IF i % 2 = 1 THEN 204 ELSE 221]

S3Line == <<170, 170, 170, 187, 204, 221>>

LongLens ==
    {MaxPacket - 1, MaxPacket, MaxPacket + 1, 2 * MaxPacket, 2 * MaxPacket + 1}

\* raster lines: every short line over two byte values, the line of
\* scenario S3, and long runs and long literal spans around the packet limit
Lines ==
    UNION {[1..n -> LineBytes] : n \in 0..MaxLineLen}
        \cup {S3Line}
        \cup {Run(b, n) \o t : b \in LineBytes \cup {0}, n \in LongLens,
                               t \in {<<>>, <<221>>}}
        \cup {h \o Alternating(n) \o t : n \in LongLens,
                  h \in {<<>>, <<170, 170>>}, t \in {<<>>, <<221, 221>>}}

\* a raster line is compressed by the encoder and decompressed by the reader
CompressLine ==
    /\ call_fn = "none"
    /\ call_arg.kind = "line"
    /\ call_fn' = "packbits"
    /\ call_ret' = [enc |-> packbits_encode(call_arg.val),
                    dec |-> packbits_decode(packbits_encode(call_arg.val))]
    /\ UNCHANGED <<call_arg, model, auto_cut, compress, spool_file, spool_fn,
                   spool_data, spool_pos, spool_dir, raster,
                   metadata_templates, pages, last_page_default, preview_res,
                   lastOp, fs_calls, backendVars, commVars>>

\* match_opcode is called on data that start with an opcode
MatchOpcode ==
    /\ call_fn = "none"
    /\ call_arg.kind = "opcode"
    /\ call_fn' = "match_opcode"
    /\ call_ret' = match_opcode(call_arg.val, 1).sig
    /\ UNCHANGED <<call_arg, model, auto_cut, compress, spool_file, spool_fn,
                   spool_data, spool_pos, spool_dir, raster,
                   metadata_templates, pages, last_page_default, preview_res,
                   lastOp, fs_calls, backendVars, commVars>>

\* the reader takes the next chunk off a byte stream
Read ==
    /\ call_fn \in {"none", "reader"}
    /\ call_arg.kind \in {"stream", "job"}
    /\ call_ret.err = "none"
    /\ call_ret.pos <= Len(call_arg.val)
    /\ call_fn' = "reader"
    /\ call_ret' = ReadChunk(call_ret, call_arg.val)
    /\ UNCHANGED <<call_arg, model, auto_cut, compress, spool_file, spool_fn,
                   spool_data, spool_pos, spool_dir, raster,
                   metadata_templates, pages, last_page_default, preview_res,
                   lastOp, fs_calls, backendVars, commVars>>

\* the first and last position of consecutive commands of the given lengths
RECURSIVE Bounds(_, _, _, _)
Bounds(lens, lo, hi, base) ==
    IF lo > hi THEN <<>>
    ELSE IF lo = hi THEN << <<base + 1, base + lens[lo]>> >>
    ELSE LET mid == (lo + hi) \div 2
             L == Bounds(lens, lo, mid, base)
         IN  L \o Bounds(lens, mid + 1, hi, L[Len(L)][2])

\* a byte stream made of the commands ws, with the commands' boundaries
Stream(kind, ws) ==
    [kind |-> kind, val |-> Concat(ws),
     bounds |-> Bounds([i \in DOMAIN ws |-> Len(ws[i])], 1, Len(ws), 0)]

\* tests/test_reader.py, test_match_opcode and test_chunker
TestOpcodeData == <<27, 105, 88, 71, 0, 35, 86>>

TestInstructions ==
    << <<0>>,
       <<27, 105, 122, 0, 1, 2, 3, 4, 5, 6, 7, 8, 9>>,
       <<71, 2, 1>> \o Run(0, 256) \o <<0, 0>>,
       <<103, 0, 3, 170, 187, 204>> >>

\* the bytes that follow an opcode in the inputs of match_opcode
TailBytes == {0, 64, 105, 255}

OpcodeInputs ==
    {[kind |-> "opcode", opcode |-> e.sig, val |-> e.sig \o t] :
        e \in OPCODES,
        t \in {<<>>} \cup {<<b>> : b \in TailBytes}
                \cup {<<b, c>> : b \in TailBytes, c \in TailBytes}}
      \cup {[kind |-> "opcode", opcode |-> <<27, 105, 88, 71>>,
             val |-> TestOpcodeData]}

\* commands as the encoder operations write them one at a time
SampleCommands ==
    { Run(0, 2), <<27, 64>>, <<27, 105, 83>>, <<27, 105, 100, 35, 0>>,
      <<77, 2>>, <<103, 0, 2, 170, 187>>, <<71, 2, 0, 170, 187>>,
      <<103, 0, 0>>, <<26>>, <<27>> }

MaxStreamCmds == 3     \* commands of an enumerated stream

StreamInputs ==
    {Stream("stream", ws) :
        ws \in {TestInstructions}
                 \cup UNION {[1..n -> SampleCommands] : n \in 1..MaxStreamCmds}}

\* rows of a page image of the P-touch model (its minimum length)
RowsPT == 31

PageRowsOf(m) == IF IsPT(m) THEN RowsPT ELSE PageRows

\* one Spool.render call: n images, image failAt (0: none) is rejected,
\* with the compress setting in force at the call
RenderCalls == UNION {[n : {n}, failAt : 0..n, comp : BOOLEAN] :
                          n \in 1..MaxRenderPages}

\* the spool file after __enter__ and the render calls of a job
RECURSIVE RenderAll(_, _, _, _, _, _)
RenderAll(m, st, calls, k, cut, last) ==
    IF k > Len(calls) THEN st
    ELSE RenderAll(m,
                   RenderLoop(m, st, 1, calls[k].n, calls[k].failAt,
                              PageRowsOf(m), cut, calls[k].comp, last),
                   calls, k + 1, cut, last)

JobCommands(m, calls, cut, last) ==
    RenderAll(m, [fs |-> Prolog(m, [data |-> <<>>, pos |-> 0]),
                  meta |-> <<>>, pages |-> 0, ok |-> TRUE],
              calls, 1, cut, last).fs.data

Job(m, calls, cut, last, pats) ==
    LET cmds == JobCommands(m, calls, cut, last)
        s == Stream("job", WireCommands(m, cmds, pats))
    IN  [kind |-> "job", val |-> s.val, bounds |-> s.bounds, m |-> m,
         cmds |-> cmds, pats |-> pats]

PatternOrder == <<"white", "stripes", "bar", "noise">>

\* the patterns of the page images of a job
PagePatterns ==
    {[p \in 1..MaxPages |-> PatternOrder[((p + k) % 4) + 1]] : k \in 0..3}

\* jobs of the P-touch model: one or two render calls; jobs of the QL
\* models: one page of PageRows rows
JobInputs ==
    {Job(ModelPT, calls, cut, last, pats) :
        calls \in {c \in {<<a>> : a \in RenderCalls}
                            \cup {<<a, b>> : a \in RenderCalls,
                                             b \in RenderCalls} :
                      c[1].n + c[Len(c)].n * (Len(c) - 1) <= MaxPages},
        cut \in BOOLEAN, last \in BOOLEAN, pats \in PagePatterns}
      \cup {Job(m, <<[n |-> 1, failAt |-> 0, comp |-> comp]>>, TRUE, TRUE,
                pats) :
               m \in {q \in ALL_MODELS : q.name \in {"QL-500", "QL-600"}},
               comp \in BOOLEAN,
               pats \in {q \in PagePatterns : q[1] \in {"white", "noise"}}}

ReaderInputs ==
    {[kind |-> "line", val |-> B] : B \in Lines}
        \cup OpcodeInputs \cup StreamInputs \cup JobInputs

ReaderInit ==
    /\ InitObjects
    /\ model.name = "QL-600"
    /\ backend = "file"
    /\ last_page_default = TRUE
    /\ call_fn = "none"
    /\ call_arg \in ReaderInputs
    /\ call_ret = IF call_arg.kind \in {"stream", "job"}
                  THEN NewReader ELSE <<>>

ReaderNext ==
    \/ CompressLine
    \/ MatchOpcode
    \/ Read

ReaderSpec == ReaderInit /\ [][ReaderNext]_vars

(***************************************************************************)
(* Name resolution (cli.py).  A string is the sequence of its characters;  *)
(* a character outside ASCII is written by its code point.                 *)
(***************************************************************************)
ascii_uppercase ==
    <<"A", "B", "C", "D", "E", "F", "G", "H", "I", "J", "K", "L", "M",
      "N", "O", "P", "Q", "R", "S", "T", "U", "V", "W", "X", "Y", "Z">>

ascii_lowercase ==
    <<"a", "b", "c", "d", "e", "f", "g", "h", "i", "j", "k", "l", "m",
      "n", "o", "p", "q", "r", "s", "t", "u", "v", "w", "x", "y", "z">>

digits == <<"0", "1", "2", "3", "4", "5", "6", "7", "8", "9">>

Range(f) == {f[i] : i \in DOMAIN f}

\* the characters of the names and of what is typed into them
Characters ==
    Range(ascii_uppercase) \cup Range(ascii_lowercase) \cup Range(digits)
        \cup {"-", " ", "_", "U+00C9", "U+00E9", "U+0130", "U+0307"}

\* str.lower() character by character: a sequence, since U+0130 becomes two
lower_table ==
    [c \in Characters |->
        IF c \in Range(ascii_uppercase)
        THEN <<ascii_lowercase[CHOOSE k \in 1..26 : ascii_uppercase[k] = c]>>
        ELSE CASE c = "U+00C9" -> <<"U+00E9">>
               [] c = "U+0130" -> <<"i", "U+0307">>
               [] OTHER -> <<c>>]

lower(c) == lower_table[c]

\* str.upper() of an ASCII letter, the character itself otherwise
upper_table ==
    [c \in Characters |->
        IF c \in Range(ascii_lowercase)
        THEN ascii_uppercase[CHOOSE k \in 1..26 : ascii_lowercase[k] = c]
        ELSE c]

upper(c) == upper_table[c]

alnum == Range(ascii_uppercase) \cup Range(ascii_lowercase) \cup Range(digits)

InAlnum(c) == c \in alnum

\* _normalise without the lower-casing
normalise_keep_case(x) == SelectSeq(x, InAlnum)

\* _normalise, lines 106-108
normalise(x) ==
    SelectSeq(Concat([i \in DOMAIN x |-> lower(x[i])]), InAlnum)

\* the names of models.ALL_MODELS and of backends.ALL_BACKEND_NAMES
MODEL_NAMES ==
    << <<"Q", "L", "-", "5", "0", "0">>,
       <<"Q", "L", "-", "5", "5", "0">>,
       <<"Q", "L", "-", "5", "6", "0">>,
       <<"Q", "L", "-", "5", "7", "0">>,
       <<"Q", "L", "-", "5", "8", "0", "N">>,
       <<"Q", "L", "-", "6", "0", "0">>,
       <<"Q", "L", "-", "6", "5", "0", "T", "D">>,
       <<"Q", "L", "-", "7", "0", "0">>,
       <<"Q", "L", "-", "7", "1", "0", "W">>,
       <<"Q", "L", "-", "7", "2", "0", "N", "W">>,
       <<"Q", "L", "-", "8", "0", "0">>,
       <<"Q", "L", "-", "8", "1", "0", "W">>,
       <<"Q", "L", "-", "8", "2", "0", "N", "W", "B">>,
       <<"Q", "L", "-", "1", "0", "5", "0">>,
       <<"Q", "L", "-", "1", "0", "6", "0", "N">>,
       <<"Q", "L", "-", "1", "1", "0", "0">>,
       <<"Q", "L", "-", "1", "1", "0", "0", "N", "W", "B">>,
       <<"Q", "L", "-", "1", "1", "1", "5", "N", "W", "B">>,
       <<"P", "T", "-", "P", "7", "5", "0", "W">>,
       <<"P", "T", "-", "P", "9", "0", "0", "W">>,
       <<"P", "T", "-", "P", "9", "5", "0", "N", "W">>,
       <<"P", "T", "-", "E", "5", "5", "0", "W">> >>

BACKEND_NAMES ==
    << <<"p", "y", "u", "s", "b">>,
       <<"n", "e", "t", "w", "o", "r", "k">>,
       <<"l", "i", "n", "u", "x">>,
       <<"f", "i", "l", "e">> >>

Haystack(kind) == IF kind = "model" THEN MODEL_NAMES ELSE BACKEND_NAMES

\* _fuzzy_match, lines 119-130: the index of the first entry whose
\* normalised name is the normalised needle, 0 if there is none
Lookup(needle, hay) ==
    LET hits == {i \in DOMAIN hay : normalise(hay[i]) = normalise(needle)}
    IN  IF hits = {} THEN 0
        ELSE CHOOSE i \in hits : \A j \in hits : i <= j

\* possible_names: the last name entered under a normalised name
possible_names(hay, key) ==
    hay[CHOOSE i \in DOMAIN hay :
            /\ normalise(hay[i]) = key
            /\ \A j \in DOMAIN hay : normalise(hay[j]) = key => j <= i]

\* the length of the common run of a from i and b from j, within the ends
CommonRun(a, i, ahi, b, j, bhi) ==
    LET n == Min(ahi - i, bhi - j) + 1
    IN  FirstTrue([t \in 0..(n - 1) |-> a[i + t] # b[j + t]], 0, n - 1)

\* difflib.SequenceMatcher.find_longest_match: the longest common block,
\* the earliest in a and then the earliest in b among the longest
find_longest_match(a, alo, ahi, b, blo, bhi) ==
    LET run == [i \in alo..ahi |->
                   [j \in blo..bhi |-> CommonRun(a, i, ahi, b, j, bhi)]]
        k == CHOOSE n \in 0..Len(a) :
                 /\ \A i \in alo..ahi, j \in blo..bhi : run[i][j] <= n
                 /\ n = 0 \/ \E i \in alo..ahi, j \in blo..bhi :
                                 run[i][j] = n
        i0 == CHOOSE i \in alo..ahi :
                  /\ \E j \in blo..bhi : run[i][j] = k
                  /\ \A h \in alo..(i - 1), j \in blo..bhi : run[h][j] # k
        j0 == CHOOSE j \in blo..bhi :
                  /\ run[i0][j] = k
                  /\ \A h \in blo..(j - 1) : run[i0][h] # k
    IN  [i |-> i0, j |-> j0, k |-> k]

\* the characters in the matching blocks of a[alo..ahi] and b[blo..bhi]
RECURSIVE Matches(_, _, _, _, _, _)
Matches(a, alo, ahi, b, blo, bhi) ==
    IF alo > ahi \/ blo > bhi THEN 0
    ELSE LET m == find_longest_match(a, alo, ahi, b, blo, bhi)
         IN  IF m.k = 0 THEN 0
             ELSE m.k + Matches(a, alo, m.i - 1, b, blo, m.j - 1)
                      + Matches(a, m.i + m.k, ahi, b, m.j + m.k, bhi)

\* SequenceMatcher.ratio as the fraction num / den (1 for two empty strings)
ratio(a, b) ==
    IF Len(a) + Len(b) = 0 THEN [num |-> 1, den |-> 1]
    ELSE [num |-> 2 * Matches(a, 1, Len(a), b, 1, Len(b)),
          den |-> Len(a) + Len(b)]

\* ratio >= cutoff for the default cutoff 0.6
AboveCutoff(r) == 10 * r.num >= 6 * r.den

\* the code point order of the alphanumeric characters
code_order == digits \o ascii_uppercase \o ascii_lowercase

Ord(c) == CHOOSE k \in DOMAIN code_order : code_order[k] = c

StrLess(a, b) ==
    \/ \E k \in 1..Len(a) :
           /\ k <= Len(b)
           /\ Ord(a[k]) < Ord(b[k])
           /\ \A j \in 1..(k - 1) : a[j] = b[j]
    \/ Len(a) < Len(b) /\ \A j \in 1..Len(a) : a[j] = b[j]

\* (rx, x) < (ry, y) as heapq.nlargest compares the scored candidates
ScoredLess(rx, x, ry, y) ==
    \/ rx.num * ry.den < ry.num * rx.den
    \/ rx.num * ry.den = ry.num * rx.den /\ StrLess(x, y)

\* difflib.get_close_matches(word, possibilities) with n = 3 and cutoff
\* 0.6: the three best candidates above the cutoff, the best first
get_close_matches(word, possibilities) ==
    LET scored == {[x |-> x, r |-> ratio(x, word)] : x \in possibilities}
        good == {s \in scored : AboveCutoff(s.r)}
        n == Min(3, Cardinality(good))
    IN  [i \in 1..n |->
            (CHOOSE s \in good :
                 Cardinality({t \in good : ScoredLess(s.r, s.x, t.r, t.x)})
                     = i - 1).x]

\* _fuzzy_match that answers with the best close match
fuzzy_match_best_guess(needle, hay) ==
    LET i == Lookup(needle, hay)
        keys == {normalise(hay[j]) : j \in DOMAIN hay}
        close_matches == get_close_matches(normalise(needle), keys)
    IN  IF i # 0 THEN [err |-> "none", obj |-> hay[i], listed |-> {}]
        ELSE IF close_matches # <<>>
        THEN [err |-> "none", obj |-> possible_names(hay, close_matches[1]),
              listed |-> {}]
        ELSE [err |-> "BrotherQLUnknownId", obj |-> <<>>,
              listed |-> Range(hay)]

\* _fuzzy_match, lines 111-144: the object, or the error with the names it
\* lists
fuzzy_match(needle, hay) ==
    LET i == Lookup(needle, hay)
        keys == {normalise(hay[j]) : j \in DOMAIN hay}
        close_matches == get_close_matches(normalise(needle), keys)
    IN  IF i # 0 THEN [err |-> "none", obj |-> hay[i], listed |-> {}]
        ELSE IF close_matches # <<>>
        THEN [err |-> "BrotherQLUnknownId", obj |-> <<>>,
              listed |-> {possible_names(hay, x) : x \in Range(close_matches)}]
        ELSE [err |-> "BrotherQLUnknownId", obj |-> <<>>,
              listed |-> Range(hay)]

\* x with c put in before position p, and x without its character at p
InsertAt(x, p, c) == SubSeq(x, 1, p - 1) \o <<c>> \o SubSeq(x, p, Len(x))

DeleteAt(x, p) == SubSeq(x, 1, p - 1) \o SubSeq(x, p + 1, Len(x))

\* characters that are typed into a name
TypedChars == {"0", "x", "-", "U+0130", "U+00C9"}

\* characters that the normalisation of the claim drops
Punctuation == {"-", " "}

\* the names a user gives: a catalog name or its normalised form, as it is,
\* with one character typed in or with one character left out
Needles(kind) ==
    LET seeds == Range(Haystack(kind))
                     \cup {normalise(n) : n \in Range(Haystack(kind))}
    IN  seeds \cup {<<>>}
          \cup UNION {{InsertAt(x, p, c) :
                          p \in 1..(Len(x) + 1), c \in TypedChars} :
                      x \in seeds}
          \cup UNION {{DeleteAt(x, p) : p \in DOMAIN x} : x \in seeds}

ResolveInputs ==
    {[kind |-> k, needle |-> x] : k \in {"model"}, x \in Needles("model")}
      \cup {[kind |-> k, needle |-> x] :
               k \in {"backend"}, x \in Needles("backend")}

\* _resolve_model, _resolve_backend_name: the name is resolved
Resolve ==
    /\ call_fn = "none"
    /\ call_arg.kind \in {"model", "backend"}
    /\ call_fn' = "resolve"
    /\ call_ret' = fuzzy_match(call_arg.needle, Haystack(call_arg.kind))
    /\ UNCHANGED <<call_arg, model, auto_cut, compress, spool_file, spool_fn,
                   spool_data, spool_pos, spool_dir, raster,
                   metadata_templates, pages, last_page_default, preview_res,
                   lastOp, fs_calls, backendVars, commVars>>

\* the name of the object that was found is resolved
ResolveAgain ==
    /\ call_fn = "resolve"
    /\ call_ret.err = "none"
    /\ call_fn' = "resolve_again"
    /\ call_ret' = [first |-> call_ret,
                    again |-> fuzzy_match(call_ret.obj,
                                          Haystack(call_arg.kind))]
    /\ UNCHANGED <<call_arg, model, auto_cut, compress, spool_file, spool_fn,
                   spool_data, spool_pos, spool_dir, raster,
                   metadata_templates, pages, last_page_default, preview_res,
                   lastOp, fs_calls, backendVars, commVars>>

\* the spellings of x that differ from it in the case of one letter or in
\* one punctuation character
Respellings(x) ==
    {[i \in DOMAIN x |-> IF i = p THEN upper(x[i]) ELSE x[i]] :
        p \in DOMAIN x}
      \cup {[i \in DOMAIN x |-> IF i = p THEN lower(x[i])[1] ELSE x[i]] :
               p \in {q \in DOMAIN x : x[q] \in Range(ascii_uppercase)}}
      \cup {InsertAt(x, p, c) : p \in 1..(Len(x) + 1), c \in Punctuation}
      \cup {DeleteAt(x, p) : p \in {q \in DOMAIN x : x[q] \in Punctuation}}

\* another spelling of the same name is resolved
Respell ==
    /\ call_fn = "resolve"
    /\ \E y \in Respellings(call_arg.needle) :
           /\ call_fn' = "respelled"
           /\ call_ret' = [first |-> call_ret, other |-> y,
                           found |-> Lookup(y, Haystack(call_arg.kind))]
    /\ UNCHANGED <<call_arg, model, auto_cut, compress, spool_file, spool_fn,
                   spool_data, spool_pos, spool_dir, raster,
                   metadata_templates, pages, last_page_default, preview_res,
                   lastOp, fs_calls, backendVars, commVars>>

ResolveInit ==
    /\ InitObjects
    /\ model.name = "QL-600"
    /\ backend = "file"
    /\ last_page_default = TRUE
    /\ call_fn = "none"
    /\ call_arg \in ResolveInputs
    /\ call_ret = <<>>

ResolveNext ==
    \/ Resolve
    \/ ResolveAgain
    \/ Respell

ResolveSpec == ResolveInit /\ [][ResolveNext]_vars

(***************************************************************************)
(* Device URLs (backends/__init__.py, backends/pyusb.py)                   *)
(***************************************************************************)
startswith(s, p) == Len(p) <= Len(s) /\ SubSeq(s, 1, Len(p)) = p

Str_usb == <<"u", "s", "b", ":", "/", "/">>

Str_0x == <<"0", "x">>

Str_lp_url == <<"l", "p", ":", "/", "/">>

Str_dev_usb == <<"/", "d", "e", "v", "/", "u", "s", "b", "/">>

Str_lp == <<"l", "p">>

Str_tcp == <<"t", "c", "p", ":", "/", "/">>

Str_file == <<"f", "i", "l", "e", ":", "/", "/">>

\* guess_backend_name that takes every other non-empty string for a file
guess_backend_name_any_path(device_url, fs) ==
    IF startswith(device_url, Str_usb) \/ startswith(device_url, Str_0x)
    THEN [err |-> "none", ret |-> "pyusb"]
    ELSE IF \/ startswith(device_url, Str_lp_url)
            \/ startswith(device_url, Str_dev_usb)
            \/ startswith(device_url, Str_lp)
    THEN [err |-> "none", ret |-> "linux"]
    ELSE IF startswith(device_url, Str_tcp)
    THEN [err |-> "none", ret |-> "network"]
    ELSE IF startswith(device_url, Str_file) \/ device_url # <<>>
    THEN [err |-> "none", ret |-> "file"]
    ELSE [err |-> "ValueError", ret |-> ""]

\* guess_backend_name, lines 29-57; fs: what the file system answers for
\* the path (isfile, access to its directory, an OSError on the way)
guess_backend_name(device_url, fs) ==
    IF startswith(device_url, Str_usb) \/ startswith(device_url, Str_0x)
    THEN [err |-> "none", ret |-> "pyusb"]
    ELSE IF \/ startswith(device_url, Str_lp_url)
            \/ startswith(device_url, Str_dev_usb)
            \/ startswith(device_url, Str_lp)
    THEN [err |-> "none", ret |-> "linux"]
    ELSE IF startswith(device_url, Str_tcp)
    THEN [err |-> "none", ret |-> "network"]
    ELSE IF startswith(device_url, Str_file)
    THEN [err |-> "none", ret |-> "file"]
    ELSE IF device_url # <<>> /\ ~fs.oserror /\ (fs.isfile \/ fs.access)
    THEN [err |-> "none", ret |-> "file"]
    ELSE [err |-> "ValueError", ret |-> ""]

\* how device strings begin and go on
UrlHeads ==
    { <<>>, Str_usb, Str_0x, Str_lp_url, Str_dev_usb, Str_lp, Str_tcp,
      Str_file, <<"u", "s", "b", ":">>, <<"U", "S", "B", ":", "/", "/">>, <<"/", "d", "e", "v", "/">>, <<"l">>, <<"/", "t", "m", "p", "/">>,
      <<"t", "c", "p", ":", "/">>, <<"0", "X">>, <<".", "/">> }

UrlTails ==
    { <<>>, <<"0", "4", "f", "9", ":", "0", "x", "2", "0", "1", "5">>, <<"l", "p", "0">>, <<"o", "u", "t", ".", "b", "i", "n">>,
      <<"1", "9", "2", ".", "1", "6", "8", ".", "0", ".", "5", ":", "9", "1", "0", "0">>, <<"/", "d", "e", "v", "/", "u", "s", "b", "/", "l", "p", "0">> }

GuessInputs ==
    {[kind |-> "guess", url |-> h \o t,
      fs |-> [isfile |-> f, access |-> a, oserror |-> e]] :
        h \in UrlHeads, t \in UrlTails, f \in BOOLEAN, a \in BOOLEAN,
        e \in BOOLEAN}

\* guess_backend_name is called on a device string
GuessBackend ==
    /\ call_fn = "none"
    /\ call_arg.kind = "guess"
    /\ call_fn' = "guess_backend_name"
    /\ call_ret' = guess_backend_name(call_arg.url, call_arg.fs)
    /\ UNCHANGED <<call_arg, model, auto_cut, compress, spool_file, spool_fn,
                   spool_data, spool_pos, spool_dir, raster,
                   metadata_templates, pages, last_page_default, preview_res,
                   lastOp, fs_calls, backendVars, commVars>>

hexdigits == Range(digits) \cup {"a", "b", "c", "d", "e", "f"}
                 \cup {"A", "B", "C", "D", "E", "F"}

IsHex4(s, i) == i + 3 <= Len(s) /\ \A k \in i..(i + 3) : s[k] \in hexdigits

lower_str(s) == Concat([i \in DOMAIN s |-> lower(s[i])])

\* RE_DEVICE_SPECIFIER and parse_device_url, lines 45-47 and 361-368: the
\* lower-cased vendor and product and the serial (<<>>: none), or the
\* AttributeError when the string does not match
parse_device_url(device_specifier) ==
    LET s == IF startswith(device_specifier, Str_usb)
             THEN SubSeq(device_specifier, 7, Len(device_specifier))
             ELSE device_specifier
        rest == SubSeq(s, 14, Len(s))
        ok == /\ startswith(s, Str_0x)
              /\ IsHex4(s, 3)
              /\ SubSeq(s, 7, 9) = <<":", "0", "x">>
              /\ IsHex4(s, 10)
              /\ \/ rest = <<>>
                 \/ /\ rest[1] = "/"
                    /\ \A k \in 2..Len(rest) : rest[k] \in alnum
    IN  IF ~ok THEN [err |-> "AttributeError"]
        ELSE [err |-> "none",
              vendor_id |-> lower_str(SubSeq(s, 3, 6)),
              product_id |-> lower_str(SubSeq(s, 10, 13)),
              serial_id |-> SubSeq(rest, 2, Len(rest))]

\* device_url_to_device_infos that takes the serial for a hint
device_url_to_device_infos_any_serial(device_url, devices) ==
    LET p == parse_device_url(device_url)
        Keep(d) == /\ d.usb_vendor_id = p.vendor_id
                   /\ d.usb_product_id = p.product_id
    IN  IF p.err # "none" THEN [err |-> p.err, infos |-> <<>>]
        ELSE [err |-> "none", infos |-> SelectSeq(devices, Keep)]

\* device_url_to_device_infos, lines 370-382: the discovered devices that
\* the URL does not rule out, in the order of discovery
device_url_to_device_infos(device_url, devices) ==
    LET p == parse_device_url(device_url)
        Keep(d) == /\ d.usb_vendor_id = p.vendor_id
                   /\ d.usb_product_id = p.product_id
                   /\ p.serial_id = <<>> \/ d.serial = p.serial_id
    IN  IF p.err # "none" THEN [err |-> p.err, infos |-> <<>>]
        ELSE [err |-> "none", infos |-> SelectSeq(devices, Keep)]

\* device_url_to_usb_device, lines 384-400: the handle of the first match
device_url_to_usb_device(device_url, devices) ==
    LET r == device_url_to_device_infos(device_url, devices)
    IN  IF r.err # "none" THEN [err |-> r.err, printer |-> 0]
        ELSE IF r.infos = <<>> THEN [err |-> "BrotherQLError", printer |-> 0]
        ELSE IF r.infos[1].handle = 0
        THEN [err |-> "AssertionError", printer |-> 0]
        ELSE [err |-> "none", printer |-> r.infos[1].handle]

MaxDevices == 2        \* USB printers that discover() finds

Str_04f9 == <<"0", "4", "f", "9">>

ProductIds == {<<"2", "0", "c", "0">>, <<"2", "0", "1", "5">>}

Serials == {<<>>, <<"A", "1", "B", "2">>, <<"C", "3", "D", "4">>}

\* the device infos of discover(): usb_vendor_id and usb_product_id are
\* formatted as four lower-case hex digits; the handle is the device's
\* number on the bus, 0 for a device only sysfs has found
DeviceLists ==
    UNION {{[i \in 1..n |->
                [usb_vendor_id |-> Str_04f9, usb_product_id |-> pr[i],
                 serial |-> se[i], handle |-> IF hd[i] THEN i ELSE 0]] :
               pr \in [1..n -> ProductIds], se \in [1..n -> Serials],
               hd \in [1..n -> BOOLEAN]} :
           n \in 0..MaxDevices}

\* what follows the product in the URL: nothing, a slash, a slash and a
\* serial
UrlSuffixes == {<<>>, <<"/">>, <<"/", "A", "1", "B", "2">>, <<"/", "W", "R", "O", "N", "G", "S", "E", "R", "I", "A", "L">>}

\* the device specifier for the vendor and product and the suffix
DeviceUrl(head, vendor, product, suffix) ==
    head \o Str_0x \o vendor \o <<":">> \o Str_0x \o product \o suffix

UsbInputs ==
    {[kind |-> "usb", url |-> DeviceUrl(h, v, p, s), vendor |-> v,
      product |-> p, serial |-> SubSeq(s, 2, Len(s)), devices |-> ds] :
        h \in {<<>>, Str_usb},
        v \in {Str_04f9, <<"0", "4", "F", "9">>},
        p \in ProductIds \cup {<<"2", "0", "C", "0">>},
        s \in UrlSuffixes, ds \in DeviceLists}

\* device_url_to_device_infos is called on a device URL
DeviceInfos ==
    /\ call_fn = "none"
    /\ call_arg.kind = "usb"
    /\ call_fn' = "device_url_to_device_infos"
    /\ call_ret' = device_url_to_device_infos(call_arg.url, call_arg.devices)
    /\ UNCHANGED <<call_arg, model, auto_cut, compress, spool_file, spool_fn,
                   spool_data, spool_pos, spool_dir, raster,
                   metadata_templates, pages, last_page_default, preview_res,
                   lastOp, fs_calls, backendVars, commVars>>

\* device_url_to_usb_device is called on a device URL
UsbDevice ==
    /\ call_fn = "none"
    /\ call_arg.kind = "usb"
    /\ call_fn' = "device_url_to_usb_device"
    /\ call_ret' = device_url_to_usb_device(call_arg.url, call_arg.devices)
    /\ UNCHANGED <<call_arg, model, auto_cut, compress, spool_file, spool_fn,
                   spool_data, spool_pos, spool_dir, raster,
                   metadata_templates, pages, last_page_default, preview_res,
                   lastOp, fs_calls, backendVars, commVars>>

UrlInit ==
    /\ InitObjects
    /\ model.name = "QL-600"
    /\ backend = "file"
    /\ last_page_default = TRUE
    /\ call_fn = "none"
    /\ call_arg \in GuessInputs \cup UsbInputs
    /\ call_ret = <<>>

UrlNext ==
    \/ GuessBackend
    \/ DeviceInfos
    \/ UsbDevice

UrlSpec == UrlInit /\ [][UrlNext]_vars

(***************************************************************************)
(* Render pipeline (renderers/base.py) and the catalog of models and       *)
(* labels (models.py, labels.py).  Sizes are pairs <<width, height>>; a    *)
(* fraction is a pair <<numerator, denominator>>.                          *)
(***************************************************************************)
\* labels.py: a Label with the first of its identifiers
Label(id, tape, ff, total, printable, offs, feed) ==
    [identifier |-> id, tape_size |-> tape, form_factor |-> ff,
     dots_total |-> total, dots_printable |-> printable, offset_r |-> offs,
     feed_margin |-> feed]

\* ModelQL.labels, lines 105-306
LabelsQL ==
    { Label("12", <<12, 0>>, "ENDLESS", <<142, 0>>, <<106, 0>>, 29, 35),
      Label("18", <<18, 0>>, "ENDLESS", <<256, 0>>, <<234, 0>>, 171, 14),
      Label("29", <<29, 0>>, "ENDLESS", <<342, 0>>, <<306, 0>>, 6, 35),
      Label("38", <<38, 0>>, "ENDLESS", <<449, 0>>, <<413, 0>>, 12, 35),
      Label("50", <<50, 0>>, "ENDLESS", <<590, 0>>, <<554, 0>>, 12, 35),
      Label("54", <<54, 0>>, "ENDLESS", <<636, 0>>, <<590, 0>>, 0, 35),
      Label("62", <<62, 0>>, "ENDLESS", <<732, 0>>, <<696, 0>>, 12, 35),
      Label("62red", <<62, 0>>, "ENDLESS", <<732, 0>>, <<696, 0>>, 12, 35),
      Label("17x54", <<17, 54>>, "DIE_CUT", <<201, 636>>, <<165, 566>>, 0, 0),
      Label("17x87", <<17, 87>>, "DIE_CUT", <<201, 1026>>, <<165, 956>>, 0, 0),
      Label("23x23", <<23, 23>>, "DIE_CUT", <<272, 272>>, <<202, 202>>, 42, 0),
      Label("29x42", <<29, 42>>, "DIE_CUT", <<342, 495>>, <<306, 425>>, 6, 0),
      Label("29x90", <<29, 90>>, "DIE_CUT", <<342, 1061>>, <<306, 991>>, 6, 0),
      Label("39x90", <<38, 90>>, "DIE_CUT", <<449, 1061>>, <<413, 991>>, 12, 0),
      Label("39x48", <<39, 48>>, "DIE_CUT", <<461, 565>>, <<425, 495>>, 6, 0),
      Label("52x29", <<52, 29>>, "DIE_CUT", <<614, 341>>, <<578, 271>>, 0, 0),
      Label("54x29", <<54, 29>>, "DIE_CUT", <<630, 341>>, <<598, 271>>, 60, 0),
      Label("60x86", <<60, 87>>, "DIE_CUT", <<708, 1024>>, <<672, 954>>, 18, 0),
      Label("62x29", <<62, 29>>, "DIE_CUT", <<732, 341>>, <<696, 271>>, 12, 0),
      Label("62x100", <<62, 100>>, "DIE_CUT", <<732, 1179>>, <<696, 1109>>, 12, 0),
      Label("d12", <<12, 12>>, "ROUND_DIE_CUT", <<142, 142>>, <<94, 94>>, 113, 35),
      Label("d24", <<24, 24>>, "ROUND_DIE_CUT", <<284, 284>>, <<236, 236>>, 42, 0),
      Label("d58", <<58, 58>>, "ROUND_DIE_CUT", <<688, 688>>, <<618, 618>>, 51, 0) }

\* ModelQL10.labels, lines 309-349
LabelsQL10 ==
    LabelsQL \cup
    { Label("102", <<102, 0>>, "ENDLESS", <<1200, 0>>, <<1164, 0>>, 12, 35),
      Label("104", <<104, 0>>, "ENDLESS", <<1227, 0>>, <<1200, 0>>, -8, 35),
      Label("102x51", <<102, 51>>, "DIE_CUT", <<1200, 596>>, <<1164, 526>>, 12, 0),
      Label("102x152", <<102, 153>>, "DIE_CUT", <<1200, 1804>>, <<1164, 1660>>, 12, 0) }

\* ModelQL11.labels, lines 352-375
LabelsQL11 ==
    LabelsQL10 \cup
    { Label("103", <<104, 0>>, "ENDLESS", <<1224, 0>>, <<1200, 0>>, 12, 35),
      Label("103x164", <<104, 164>>, "DIE_CUT", <<1224, 1941>>, <<1200, 1822>>, 12, 0) }

\* ModelPT.labels, lines 378-419
LabelsPT ==
    { Label("12", <<12, 0>>, "PTOUCH_ENDLESS", <<170, 0>>, <<150, 0>>, 213, 14),
      Label("18", <<18, 0>>, "PTOUCH_ENDLESS", <<256, 0>>, <<234, 0>>, 171, 14),
      Label("24", <<24, 0>>, "PTOUCH_ENDLESS", <<128, 0>>, <<128, 0>>, 0, 14),
      Label("36", <<36, 0>>, "PTOUCH_ENDLESS", <<512, 0>>, <<454, 0>>, 61, 14) }

\* ModelPTE.labels, lines 422-472
LabelsPTE ==
    { Label("6", <<6, 0>>, "PTOUCH_ENDLESS", <<42, 0>>, <<32, 0>>, 48, 14),
      Label("9", <<9, 0>>, "PTOUCH_ENDLESS", <<64, 0>>, <<50, 0>>, 39, 14),
      Label("12", <<12, 0>>, "PTOUCH_ENDLESS", <<84, 0>>, <<70, 0>>, 29, 14),
      Label("18", <<18, 0>>, "PTOUCH_ENDLESS", <<128, 0>>, <<112, 0>>, 8, 14),
      Label("24", <<24, 0>>, "PTOUCH_ENDLESS", <<170, 0>>, <<128, 0>>, 0, 14) }

\* ALL_MODELS, lines 475-620: every model of the catalog
Catalog ==
    { Model("QL-500", FALSE, FALSE, FALSE, FALSE, FALSE, 200),
      Model("QL-550", FALSE, TRUE, TRUE, FALSE, FALSE, 200),
      Model("QL-560", FALSE, TRUE, TRUE, FALSE, FALSE, 200),
      Model("QL-570", FALSE, TRUE, TRUE, FALSE, FALSE, 200),
      Model("QL-580N", TRUE, TRUE, TRUE, TRUE, FALSE, 200),
      Model("QL-600", TRUE, TRUE, TRUE, TRUE, FALSE, 200),
      Model("QL-650TD", TRUE, TRUE, TRUE, TRUE, FALSE, 200),
      Model("QL-700", FALSE, TRUE, TRUE, FALSE, FALSE, 200),
      Model("QL-710W", TRUE, TRUE, TRUE, TRUE, FALSE, 200),
      Model("QL-720NW", TRUE, TRUE, TRUE, TRUE, FALSE, 200),
      Model("QL-800", TRUE, TRUE, TRUE, FALSE, TRUE, 400),
      Model("QL-810W", TRUE, TRUE, TRUE, TRUE, TRUE, 400),
      Model("QL-820NWB", TRUE, TRUE, TRUE, TRUE, TRUE, 400),
      Model("QL-1050", TRUE, TRUE, TRUE, TRUE, FALSE, 200),
      Model("QL-1060N", TRUE, TRUE, TRUE, TRUE, FALSE, 200),
      Model("QL-1100", TRUE, TRUE, TRUE, TRUE, FALSE, 200),
      Model("QL-1100NWB", TRUE, TRUE, TRUE, TRUE, FALSE, 200),
      Model("QL-1115NWB", TRUE, TRUE, TRUE, TRUE, FALSE, 200),
      Model("PT-P750W", TRUE, TRUE, TRUE, TRUE, FALSE, 200),
      Model("PT-P900W", TRUE, TRUE, TRUE, TRUE, FALSE, 200),
      Model("PT-P950NW", TRUE, TRUE, TRUE, TRUE, FALSE, 200),
      Model("PT-E550W", TRUE, TRUE, TRUE, TRUE, FALSE, 200) }

QL10Names == {"QL-1050", "QL-1060N"}

QL11Names == {"QL-1100", "QL-1100NWB", "QL-1115NWB"}

PTNames == {"PT-P750W", "PT-P900W", "PT-P950NW"}

PTENames == {"PT-E550W"}

\* Model.labels of the class of the model
labels(m) ==
    CASE m.name \in QL10Names -> LabelsQL10
      [] m.name \in QL11Names -> LabelsQL11
      [] m.name \in PTNames -> LabelsPT
      [] m.name \in PTENames -> LabelsPTE
      [] OTHER -> LabelsQL

additional_offset_r(m) ==
    IF m.name \in QL10Names \cup QL11Names THEN 44 ELSE 0

\* RenderOptions.palette: the default palette, black then white
DefaultPalette == <<<<0, 0, 0>>, <<1, 1, 1>>>>

\* render options whose device width is the total width of the label
render_options_label_width(m, label, rotate, auto_rotate) ==
    [rotate |-> rotate,
     auto_rotate |-> auto_rotate,
     printable_pixels |-> label.dots_printable,
     device_pixels |-> <<label.dots_total[1], label.dots_total[2]>>,
     device_pixels_offs |-> <<label.offset_r + additional_offset_r(m), 0>>,
     device_pixels_padding_bottom |-> 0,
     palette |-> DefaultPalette]

\* Spool.render_options, lines 199-217
render_options(m, label, rotate, auto_rotate) ==
    [rotate |-> rotate,
     auto_rotate |-> auto_rotate,
     printable_pixels |-> label.dots_printable,
     device_pixels |-> <<number_bytes_per_row(m) * 8, label.dots_total[2]>>,
     device_pixels_offs |-> <<label.offset_r + additional_offset_r(m), 0>>,
     device_pixels_padding_bottom |-> 0,
     palette |-> DefaultPalette]

\* RenderOptions.is_endless
is_endless(ro) == ro.printable_pixels[2] = 0

\* RenderOptions.validate, lines 136-159: FALSE when an assertion fails
validate(ro) ==
    /\ ro.printable_pixels[1] > 0
    /\ ro.printable_pixels[2] >= 0
    /\ ro.device_pixels[1] > 0
    /\ ro.device_pixels[2] >= 0
    /\ ro.printable_pixels[1] <= ro.device_pixels[1]
    /\ ro.printable_pixels[2] <= ro.device_pixels[2]
    /\ ro.device_pixels_padding_bottom >= 0
    /\ (is_endless(ro) =>
            /\ ro.printable_pixels[2] = 0
            /\ ro.device_pixels[2] = 0)
    /\ ro.rotate \in {0, 90, 180, 270}
    /\ \A i \in DOMAIN ro.palette : \A k \in 1..3 :
           0 <= ro.palette[i][k] /\ ro.palette[i][k] <= 1

\* int(round(num / den)) for num >= 0, den > 0: round() goes to the nearest
\* integer and to the even one of two that are equally near
Round(num, den) ==
    LET q == num \div den
        r == num % den
    IN  IF 2 * r < den THEN q
        ELSE IF 2 * r > den THEN q + 1
        ELSE IF q % 2 = 0 THEN q ELSE q + 1

\* _render_page, lines 242-254: the size the page is scaled to
FitSize(ro, page_size) ==
    LET W == page_size[1]
        H == page_size[2]
        P0 == ro.printable_pixels[1]
        P1 == ro.printable_pixels[2]
        wide == <<Round(P0, 1), Round(P0 * H, W)>>
    IN  IF (~is_endless(ro)) /\ P0 * H > P1 * W
        THEN IF P1 * W > P0 * H THEN wide
             ELSE <<Round(P1 * W, H), Round(P1, 1)>>
        ELSE wide

\* _get_palette_image, lines 205-222: the palette entries as bytes
PaletteData(palette) ==
    [i \in DOMAIN palette |-> [k \in 1..3 |-> palette[i][k] * 255]]

NoImage ==
    [width |-> 0, height |-> 0, fill |-> 0, palette |-> <<>>,
     paste |-> [x |-> 0, y |-> 0, w |-> 0, h |-> 0]]

\* _render_page, lines 224-283, on a page of the given native size; a
\* renderer asked for an image without pixels draws one (empty_ok) or
\* raises.  PIL.Image.new fills the canvas with index 0
render_page(ro, page_size, empty_ok) ==
    IF ~validate(ro)
    THEN [err |-> "AssertionError", w |-> 0, h |-> 0, image |-> NoImage]
    ELSE LET s == FitSize(ro, page_size)
             tw == ro.device_pixels[1]
             th == IF is_endless(ro)
                   THEN s[2] + ro.device_pixels_padding_bottom
                   ELSE ro.device_pixels[2]
         IN  IF (s[1] = 0 \/ s[2] = 0) /\ ~empty_ok
             THEN [err |-> "ValueError", w |-> s[1], h |-> s[2],
                   image |-> NoImage]
             ELSE [err |-> "none", w |-> s[1], h |-> s[2],
                   image |-> [width |-> tw, height |-> th, fill |-> 0,
                              palette |-> PaletteData(ro.palette),
                              paste |-> [x |-> ro.device_pixels_offs[1],
                                         y |-> ro.device_pixels_offs[2],
                                         w |-> s[1], h |-> s[2]]]]

\* the pixel (x, y) of a composed image lies under the pasted content
Covered(img, x, y) ==
    /\ img.paste.x <= x /\ x < img.paste.x + img.paste.w
    /\ img.paste.y <= y /\ y < img.paste.y + img.paste.h

\* the colour of a pixel outside the pasted content
Background(img) == img.palette[img.fill + 1]

\* the media fields with the height of the scaled content as row count
MediaAndQualityContentRows(label, img, high_quality) ==
    LET ff == label.form_factor
    IN  [mtype |-> CASE ff \in {"DIE_CUT", "ROUND_DIE_CUT"} -> 11
                     [] ff = "ENDLESS" -> 10
                     [] ff = "PTOUCH_ENDLESS" -> 0,
         mwidth |-> label.tape_size[1],
         mlength |-> IF ff \in {"DIE_CUT", "ROUND_DIE_CUT"}
                     THEN label.tape_size[2] ELSE 0,
         pquality |-> IF high_quality THEN 1 ELSE 0,
         rnumber |-> img.paste.h]

\* Spool.render, lines 298-316: the media fields set before
\* add_media_and_quality and the row count passed to it
MediaAndQuality(label, img, high_quality) ==
    LET ff == label.form_factor
    IN  [mtype |-> CASE ff \in {"DIE_CUT", "ROUND_DIE_CUT"} -> 11
                     [] ff = "ENDLESS" -> 10
                     [] ff = "PTOUCH_ENDLESS" -> 0,
         mwidth |-> label.tape_size[1],
         mlength |-> IF ff \in {"DIE_CUT", "ROUND_DIE_CUT"}
                     THEN label.tape_size[2] ELSE 0,
         pquality |-> IF high_quality THEN 1 ELSE 0,
         rnumber |-> img.height]

(***************************************************************************)
(* Calls of the render pipeline on the labels of the catalog               *)
(***************************************************************************)
MaxPageSide == 3       \* longest side of the small native page sizes

\* native page sizes: every small size, the 696 x 300 image and its
\* transpose, pages of the shape of a die-cut label and very long pages
PageSizes ==
    {<<w, h>> : w \in 1..MaxPageSide, h \in 1..MaxPageSide}
        \cup {<<696, 300>>, <<300, 696>>, <<165, 566>>, <<991, 306>>,
              <<1000, 1>>, <<1, 1000>>}

\* the values of --rotate (cli.py, line 672)
RotateChoices == {"auto", "0", "90", "180", "270"}

\* int(value) of a rotate value
IntOf(value) ==
    CASE value = "0" -> 0
      [] value = "90" -> 90
      [] value = "180" -> 180
      [] value = "270" -> 270

\* a spool for a label of its model with the settings of Spool.__init__,
\* and the native size of the page to render
RenderInputs(m) ==
    {[kind |-> "page", label |-> l, page_size |-> p, rotate |-> 0,
      auto_rotate |-> TRUE] : l \in labels(m), p \in PageSizes}

\* the render options of the spool at hand
CurrentOptions ==
    render_options(model, call_arg.label, call_arg.rotate,
                   call_arg.auto_rotate)

\* Spool.rotate setter, lines 154-165
SetRotate(value) ==
    /\ call_fn = "none"
    /\ call_arg.kind = "page"
    /\ IF value = "auto"
       THEN call_arg' = [call_arg EXCEPT !.rotate = 0, !.auto_rotate = TRUE]
       ELSE /\ IntOf(value) \in {0, 90, 180, 270}
            /\ call_arg' = [call_arg EXCEPT !.rotate = IntOf(value),
                                            !.auto_rotate = FALSE]
    /\ lastOp' = "set"
    /\ UNCHANGED <<call_fn, call_ret, model, auto_cut, compress, spool_file,
                   spool_fn, spool_data, spool_pos, spool_dir, raster,
                   metadata_templates, pages, last_page_default, preview_res,
                   fs_calls, backendVars, commVars>>

\* RenderOptions.validate is called on the render options of the spool
Validate ==
    /\ call_fn = "none"
    /\ call_arg.kind = "page"
    /\ call_fn' = "validate"
    /\ call_ret' = [ok |-> validate(CurrentOptions)]
    /\ UNCHANGED <<call_arg, model, auto_cut, compress, spool_file, spool_fn,
                   spool_data, spool_pos, spool_dir, raster,
                   metadata_templates, pages, last_page_default, preview_res,
                   lastOp, fs_calls, backendVars, commVars>>

\* Renderer._render_page is called on the page
RenderPageImage(empty_ok) ==
    /\ call_fn = "none"
    /\ call_arg.kind = "page"
    /\ call_fn' = "render_page"
    /\ call_ret' = render_page(CurrentOptions, call_arg.page_size, empty_ok)
    /\ UNCHANGED <<call_arg, model, auto_cut, compress, spool_file, spool_fn,
                   spool_data, spool_pos, spool_dir, raster,
                   metadata_templates, pages, last_page_default, preview_res,
                   lastOp, fs_calls, backendVars, commVars>>

\* Spool.render, lines 293-316: the image of the page and what the encoder
\* is told about the media before the page is encoded
RenderMedia(empty_ok, high_quality) ==
    /\ call_fn = "none"
    /\ call_arg.kind = "page"
    /\ call_fn' = "render"
    /\ LET r == render_page(CurrentOptions, call_arg.page_size, empty_ok)
       IN  call_ret' =
               [err |-> r.err, image |-> r.image,
                media |-> IF r.err = "none"
                          THEN MediaAndQuality(call_arg.label, r.image,
                                               high_quality)
                          ELSE MediaAndQuality(call_arg.label, NoImage,
                                               high_quality)]
    /\ UNCHANGED <<call_arg, model, auto_cut, compress, spool_file, spool_fn,
                   spool_data, spool_pos, spool_dir, raster,
                   metadata_templates, pages, last_page_default, preview_res,
                   lastOp, fs_calls, backendVars, commVars>>

RenderInit ==
    /\ model \in Catalog
    /\ InitFields
    /\ backend = "file"
    /\ last_page_default = TRUE
    /\ call_fn = "none"
    /\ call_arg \in RenderInputs(model)
    /\ call_ret = <<>>

RenderNext ==
    \/ \E value \in RotateChoices : SetRotate(value)
    \/ Validate
    \/ \E empty_ok \in BOOLEAN : RenderPageImage(empty_ok)
    \/ \E empty_ok \in BOOLEAN : \E hq \in BOOLEAN : RenderMedia(empty_ok, hq)

RenderSpec == RenderInit /\ [][RenderNext]_vars

(***************************************************************************)
(* The print command (cli.py, print_cmd)                                   *)
(***************************************************************************)
\* the options of the print command that are flags, and --rotate
PrintOptions ==
    [no_cut : BOOLEAN, no_compress : BOOLEAN, no_preview : BOOLEAN,
     low_quality : BOOLEAN, rotate : RotateChoices]

\* the render queue of one invocation: one or two objects; a rejected page
\* image ends the command, so only the last object may hold one
RenderQueues(comp) ==
    {<<a>> : a \in {c \in RenderCalls : c.comp = comp}}
        \cup {q \in {<<a, b>> : a \in RenderCalls, b \in RenderCalls} :
                 /\ q[1].comp = comp /\ q[2].comp = comp
                 /\ q[1].failAt = 0
                 /\ q[1].n + q[2].n <= MaxPages}

\* print_cmd, lines 733-781: the spool is entered, rotate and high_quality
\* are set from the options (no other option is read), the queue is
\* rendered, the preview is shown unless --no-preview is given, the job is
\* printed unless the preview window was closed without the print action,
\* and the with block cleans the spool up.  The backend object is a local
\* of the command; backend_ok is FALSE when it cannot be instantiated or
\* opened.  call_ret holds what the command did.
PrintCmd(kw, queue, gui_print, backend_ok) ==
    /\ call_fn = "none"
    /\ ~spool_file
    /\ LET st == RenderAll(model,
                           [fs |-> Prolog(model, [data |-> <<>>, pos |-> 0]),
                            meta |-> <<>>, pages |-> 0, ok |-> TRUE],
                           queue, 1, auto_cut, last_page_default)
           previewed == st.ok /\ ~kw.no_preview
           printing == st.ok /\ (kw.no_preview \/ gui_print)
           written == IF printing /\ backend_ok
                      THEN <<FileRead(SeekStart(st.fs)).out>>
                      ELSE <<>>
           raised == ~st.ok \/ (printing /\ ~backend_ok)
       IN  /\ call_fn' = "print_cmd"
           /\ call_arg' = kw
           /\ call_ret' = [raised |-> raised,
                           rotate |-> IF kw.rotate = "auto" THEN 0
                                      ELSE IntOf(kw.rotate),
                           auto_rotate |-> kw.rotate = "auto",
                           high_quality |-> ~kw.low_quality,
                           auto_cut |-> auto_cut,
                           compress |-> compress,
                           pages |-> st.pages,
                           previewed |-> previewed,
                           written |-> written]
           /\ lastOp' = IF raised THEN "exit_exc" ELSE "exit"
           /\ fs_calls' = 2 + (IF previewed THEN 1 ELSE 0)
    /\ spool_file' = FALSE
    /\ spool_fn' = FALSE
    /\ spool_data' = <<>>
    /\ spool_pos' = 0
    /\ spool_dir' = FALSE
    /\ raster' = FALSE
    /\ metadata_templates' = <<>>
    /\ pages' = 0
    /\ sent' = <<>>
    /\ preview_res' = <<>>
    /\ UNCHANGED <<model, auto_cut, compress, last_page_default, backendVars,
                   pc, elapsed, poll_start, status>>

\* a process that runs the print command once, for a model of its own
CliInit ==
    /\ InitObjects
    /\ NoCall
    /\ backend = "file"
    /\ last_page_default = TRUE

CliNext ==
    \E kw \in PrintOptions : \E queue \in RenderQueues(compress) :
        \E gui_print \in BOOLEAN : \E backend_ok \in BOOLEAN :
            PrintCmd(kw, queue, gui_print, backend_ok)

CliSpec == CliInit /\ [][CliNext]_vars

(***************************************************************************)
(* Properties                                                              *)
(***************************************************************************)
CurrentFile == [data |-> spool_data, pos |-> spool_pos]

OpsOf(data) == [i \in DOMAIN data |-> data[i].op]

IsPage(p, c) == c.page = p

\* the commands of page p, in file order
PageCmds(data, p) ==
    LET Test(c) == IsPage(p, c) IN SelectSeq(data, Test)

HasPrint(data, p) == \E i \in DOMAIN data : data[i].page = p /\ data[i].op = "print"

\* the capability flag a command is gated by
Gate(m, op) ==
    CASE op = "switch_mode" -> m.supports_mode_setting
      [] op \in {"autocut", "cut_every"} -> m.supports_cutting
      [] op = "expanded_mode" -> m.supports_expanded_mode
      [] op = "compression" -> m.supports_compression
      [] OTHER -> TRUE

\* C1: on a model that lacks the capability, each gated encoder command
\* (switch_mode, autocut, cut_every, expanded_mode, compression) returns the
\* UnsupportedCommand error and leaves the sink as it was, so the spool
\* file, whose writer swallows the error and goes on, never contains a
\* command whose capability the model lacks and always contains the
\* commands that follow a swallowed switch_mode.
C1_GatedCommandsLeaveSink ==
    spool_file =>
        /\ ~model.supports_mode_setting =>
             add_switch_mode(model, CurrentFile, pages)
                 = [fs |-> CurrentFile, err |-> TRUE]
        /\ ~model.supports_cutting =>
             /\ add_autocut(model, CurrentFile, pages)
                    = [fs |-> CurrentFile, err |-> TRUE]
             /\ add_cut_every(model, CurrentFile, pages, 1)
                    = [fs |-> CurrentFile, err |-> TRUE]
        /\ ~model.supports_expanded_mode =>
             add_expanded_mode(model, CurrentFile, pages, FALSE, auto_cut,
                               FALSE)
                 = [fs |-> CurrentFile, err |-> TRUE]
        /\ ~model.supports_compression =>
             add_compression(model, CurrentFile, pages)
                 = [fs |-> CurrentFile, err |-> TRUE]
        /\ \A i \in DOMAIN spool_data : Gate(model, spool_data[i].op)
        /\ \E i \in DOMAIN spool_data : spool_data[i].op = "invalidate"
        /\ \E i \in DOMAIN spool_data : spool_data[i].op = "initialize"

\* a page was rendered with cutting and compression requested on a model
\* that supports neither, and the page is complete
C1_Witness ==
    /\ lastOp = "render"
    /\ auto_cut
    /\ compress
    /\ ~model.supports_cutting
    /\ ~model.supports_compression
    /\ HasPrint(spool_data, pages)
    /\ OpsOf(PageCmds(spool_data, pages))
           = <<"status_information", "media_and_quality", "margins",
               "raster", "print">>

\* the commands of a page rendered on model m with the given settings
ExpectedPageOps(m, cut, comp) ==
    <<"status_information", "media_and_quality">>
        \o (IF cut /\ m.supports_cutting
            THEN <<"autocut", "cut_every">> ELSE <<>>)
        \o (IF m.supports_expanded_mode THEN <<"expanded_mode">> ELSE <<>>)
        \o <<"margins">>
        \o (IF comp /\ m.supports_compression
            THEN <<"compression">> ELSE <<>>)
        \o <<"raster", "print">>

PagesInOrder(data) ==
    \A i, j \in DOMAIN data : i < j => data[i].page <= data[j].page

\* C2: every page that a render call completes consists of
\* status_information, media_and_quality, autocut and cut_every (if
\* supported and requested), expanded_mode (if supported), margins,
\* compression (if supported and enabled), raster data and print, in this
\* order, and the commands of a page never precede a command of an earlier
\* page.
C2_PageCommandOrder ==
    [][(lastOp' \in {"render", "render_raised"} /\ pages' > pages) =>
          /\ \A p \in (pages + 1)..pages' :
                HasPrint(spool_data', p) =>
                    OpsOf(PageCmds(spool_data', p))
                        = ExpectedPageOps(model, auto_cut, compress)
          /\ PagesInOrder(spool_data')]_vars

\* a second page with all optional commands follows a first page
C2_Witness ==
    /\ lastOp = "render"
    /\ pages = 2
    /\ HasPrint(spool_data, 1)
    /\ OpsOf(PageCmds(spool_data, 2))
           = <<"status_information", "media_and_quality", "autocut",
               "cut_every", "expanded_mode", "margins", "compression",
               "raster", "print">>

\* C3: the prolog is written once, before the commands of the pages, and is
\* at most one switch_mode, then invalidate with the invalidate byte count
\* of the model, then initialize.
C3_PrologOnce ==
    spool_file =>
        LET prolog == PageCmds(spool_data, 0)
        IN  /\ OpsOf(prolog) \in {<<"invalidate", "initialize">>,
                                  <<"switch_mode", "invalidate",
                                    "initialize">>}
            /\ \A i \in DOMAIN prolog :
                  prolog[i].op = "invalidate" =>
                      prolog[i].arg = model.num_invalidate_bytes
            /\ PagesInOrder(spool_data)

\* C4: in a job of n >= 1 complete pages the print commands of the first
\* n-1 pages are not marked as last page and the print command of page n
\* is.
C4_LastPagePrint ==
    LET IsPrint(c) == c.op = "print"
        prints == SelectSeq(spool_data, IsPrint)
    IN  \A i \in DOMAIN prints :
            prints[i].arg = IF i = Len(prints) THEN 1 ELSE 0

\* every page that was started has its print command, and there is one
Finalized(data) ==
    /\ \E i \in DOMAIN data : data[i].op = "print"
    /\ \A i \in DOMAIN data :
          data[i].page > 0 => HasPrint(data, data[i].page)

\* C5: print writes nothing to the backend unless the job holds at least
\* one page and every page that was started has its print command.
C5_NoPartialJobSent ==
    \A i \in DOMAIN sent : sent[i] # <<>> => Finalized(sent[i])

Disposals == {"cleanup", "exit", "exit_exc"}

\* C6: after cleanup() or __exit__ (normal or by an exception) the spool
\* file is closed and deleted, the preview directory is removed and the
\* raster state and the metadata are dropped, whatever render, preview and
\* print calls came before; cleanup() on a spool that holds nothing makes
\* no file-system call.
C6_DisposeReleases ==
    [][lastOp' \in Disposals =>
          /\ Cleared'
          /\ spool_data' = <<>>
          /\ Cleared => fs_calls' = 0]_vars

\* the context is left by an exception after a preview: the file is closed
\* and deleted and the preview directory removed
C6_Witness ==
    /\ lastOp = "exit_exc"
    /\ fs_calls = 3
    /\ Cleared

\* C7: open() on an open backend and close() on a closed backend perform no
\* underlying action, the successful _do_open and _do_close alternate and
\* start with _do_open, and the backend is open exactly when the last
\* successful one was _do_open.
C7_OpenCloseIdempotent ==
    /\ last_call.op = "open" /\ last_call.was_open => ~last_call.did
    /\ last_call.op = "close" /\ ~last_call.was_open => ~last_call.did
    /\ do_hist[2] # "none" => do_hist[1] # do_hist[2]
    /\ do_hist[1] = "none" /\ do_hist[2] # "none" => do_hist[2] = "open"
    /\ is_open <=> do_hist[2] = "open"

\* open() is called on a backend that was opened, closed and opened again
C7_Witness ==
    /\ last_call = [op |-> "open", was_open |-> TRUE, did |-> FALSE]
    /\ do_hist = <<"close", "open">>
    /\ is_open

\* C8: when print has returned or raised, the backend holds no transport
\* resource.
C8_PrintReleasesTransport ==
    lastOp \in {"print", "print_raised"} => held = {}

\* C9: print writes to the backend once, the whole spool file from offset 0
\* in file order, before any status read; status reads cause no write.
C9_SingleOrderedWrite ==
    /\ Len(sent) <= 1
    /\ \A i \in DOMAIN sent : sent[i] = spool_data
    /\ pc = "poll" => Len(sent) = 1
    /\ poll_start >= 0 => Len(sent) = 1
    /\ lastOp = "print" => Len(sent) = 1

\* a job with a page was written and a status reply has been read
C9_Witness ==
    /\ pc = "poll"
    /\ poll_start >= 0
    /\ status.printer_state = "other"
    /\ pages >= 1
    /\ sent = <<spool_data>>

RECURSIVE Packets(_, _)
Packets(E, i) ==
    IF i > Len(E) THEN <<>>
    ELSE LET c == E[i]
             run == c >= 128
             covers == IF run THEN 257 - c ELSE c + 1
             size == IF run THEN 2 ELSE c + 2
         IN  <<[run |-> run, covers |-> covers, last |-> i + size - 1]>>
                 \o Packets(E, i + size)

\* C11: PackBits compression is lossless: decoding the encoding of a line
\* yields the line; the line AA AA AA BB CC DD encodes to FE AA 02 BB CC DD;
\* the packets tile the encoding and none covers more than 128 bytes.
C11_PackBitsLossless ==
    call_fn = "packbits" =>
        /\ call_ret.dec = call_arg.val
        /\ \A k \in DOMAIN Packets(call_ret.enc, 1) :
             LET pk == Packets(call_ret.enc, 1)[k]
             IN  /\ pk.covers <= 128
                 /\ pk.covers >= (IF pk.run THEN 2 ELSE 1)
                 /\ pk.last <= Len(call_ret.enc)
        /\ call_arg.val = S3Line =>
             call_ret.enc = <<254, 170, 2, 187, 204, 221>>

\* a run and a literal span longer than one packet have been compressed
C11_Witness ==
    /\ call_fn = "packbits"
    /\ Len(call_arg.val) = 2 * MaxPacket + 5
    /\ call_arg.val[1] = call_arg.val[2]
    /\ call_ret.dec = call_arg.val
    /\ Len(call_ret.enc) > MaxPacket

\* the reader has taken the whole stream
ReaderDone ==
    /\ call_fn = "reader"
    /\ call_ret.err = "none"
    /\ call_ret.pos > Len(call_arg.val)

ChunkBytes(c) == SubSeq(call_arg.val, c[1], c[2])

AllNul(c) == \A k \in c[1]..c[2] : call_arg.val[k] = 0

NotNul(c) == ~AllNul(c)

ChunksConcat ==
    Concat([i \in DOMAIN call_ret.chunks |-> ChunkBytes(call_ret.chunks[i])])

\* C12 as claimed: on a concatenation of well-formed commands the list of
\* chunks equals the list of commands and their concatenation is the input
C12_ChunksAreCommands ==
    /\ call_fn = "reader" => call_ret.err = "none"
    /\ ReaderDone => /\ call_ret.chunks = call_arg.bounds
                     /\ ChunksConcat = call_arg.val

\* C12 (amended): on a concatenation of well-formed commands the chunker
\* raises no error; every command other than the NUL filler is yielded as
\* one chunk with its original boundaries, the commands in their order; the
\* filler bytes are yielded in chunks of NUL bytes only (adjacent filler
\* commands in one chunk); the concatenation of the chunks is the input
C12_ChunksKeepCommands ==
    /\ call_fn = "reader" => call_ret.err = "none"
    /\ ReaderDone =>
          /\ SelectSeq(call_ret.chunks, NotNul)
                 = SelectSeq(call_arg.bounds, NotNul)
          /\ \A i \in DOMAIN call_ret.chunks :
                 AllNul(call_ret.chunks[i]) =>
                     /\ call_ret.chunks[i][1] <= call_ret.chunks[i][2]
                     /\ \A j \in DOMAIN call_ret.chunks :
                            call_ret.chunks[j][1] = call_ret.chunks[i][2] + 1
                                => NotNul(call_ret.chunks[j])
          /\ ChunksConcat = call_arg.val

\* two adjacent filler commands and a raster line have been read
C12_Witness ==
    /\ ReaderDone
    /\ call_arg.kind = "stream"
    /\ Len(call_arg.bounds) = 3
    /\ AllNul(call_arg.bounds[1])
    /\ AllNul(call_arg.bounds[2])
    /\ call_arg.val[call_arg.bounds[3][1]] = 103
    /\ Len(call_ret.chunks) = 2

IsRasterChunk(c) == call_arg.val[c[1]] \in {71, 103}

IsProperPrefix(a, b) == Len(a) < Len(b) /\ SubSeq(b, 1, Len(a)) = a

PrefixFree(T) == \A e \in T, f \in T : ~IsProperPrefix(e.sig, f.sig)

Image(m, pat) ==
    [width |-> 8 * number_bytes_per_row(m), height |-> PageRowsOf(m),
     rows |-> [y \in 1..PageRowsOf(m) |->
                  Row(pat, y, number_bytes_per_row(m))]]

\* the images of the pages of the job that were encoded in full
EncodedImages(job) ==
    LET prints == SelectSeq(job.cmds, IsPrintCmd)
    IN  [i \in DOMAIN prints |-> Image(job.m, job.pats[prints[i].page])]

\* C15: the reader applied to the spooled bytes of a job yields, in order,
\* one image per page that render encoded, of width number_bytes_per_row * 8
\* and of the page's row count, with the rows of the encoded image, with and
\* without compression; a QL-600 job of one page gives one image 720 wide
\* and PageRows high
C15_ReaderRoundTrip ==
    (ReaderDone /\ call_arg.kind = "job") =>
        /\ call_ret.images = EncodedImages(call_arg)
        /\ \A i \in DOMAIN call_ret.images :
               /\ call_ret.images[i].width
                      = 8 * number_bytes_per_row(call_arg.m)
               /\ call_ret.images[i].height = PageRowsOf(call_arg.m)
        /\ (call_arg.m.name = "QL-600"
                /\ Len(SelectSeq(call_arg.cmds, IsPrintCmd)) = 1) =>
               /\ Len(call_ret.images) = 1
               /\ call_ret.images[1].width = 720
               /\ call_ret.images[1].height = PageRows

\* a compressed QL-600 page of the noise pattern has been read back
C15_Witness ==
    /\ ReaderDone
    /\ call_arg.kind = "job"
    /\ call_arg.m.name = "QL-600"
    /\ call_ret.compression
    /\ call_arg.pats[1] = "noise"
    /\ Len(call_ret.images) = 1
    /\ call_ret.images[1].width = 720
    /\ call_ret.images[1].rows[2] = Row("noise", 2, 90)

\* two P-touch pages, the first compressed by the setting of its render
\* call and the second by the encoder's standing compression, are read back
C15_WitnessTwoPages ==
    /\ ReaderDone
    /\ call_arg.kind = "job"
    /\ IsPT(call_arg.m)
    /\ call_ret.compression
    /\ Len(call_ret.images) = 2
    /\ call_ret.images[1] # call_ret.images[2]

QL600 == <<"Q", "L", "-", "6", "0", "0">>

\* C17: resolving the name of a resolved model gives the same model; two
\* spellings that are equal after lower-casing and dropping the characters
\* that are not alphanumeric resolve alike; "ql600" resolves to "QL-600"
C17_ResolveIdempotent ==
    /\ call_fn = "resolve_again" =>
           /\ call_ret.again.err = "none"
           /\ call_ret.again.obj = call_ret.first.obj
    /\ call_fn = "respelled" =>
           LET hay == Haystack(call_arg.kind)
           IN  IF call_ret.first.err = "none"
               THEN /\ call_ret.found # 0
                    /\ hay[call_ret.found] = call_ret.first.obj
               ELSE call_ret.found = 0
    /\ (call_fn = "resolve" /\ call_arg.kind = "model"
            /\ call_arg.needle = <<"q", "l", "6", "0", "0">>) =>
           /\ call_ret.err = "none"
           /\ call_ret.obj = QL600

\* "ql-600" has been resolved to QL-600 after "ql600" was
C17_Witness ==
    /\ call_fn = "respelled"
    /\ call_arg.needle = <<"q", "l", "6", "0", "0">>
    /\ call_ret.other = <<"q", "l", "-", "6", "0", "0">>
    /\ call_ret.first.obj = QL600
    /\ call_ret.found = 6

\* the name of a model found for a misspelt needle has been resolved again
C17_WitnessAgain ==
    /\ call_fn = "resolve_again"
    /\ call_arg.needle # call_ret.first.obj
    /\ call_ret.again.obj = call_ret.first.obj

NoKeyMatches ==
    \A i \in DOMAIN Haystack(call_arg.kind) :
        normalise(Haystack(call_arg.kind)[i]) # normalise(call_arg.needle)

\* the catalog names with their normalised form and its similarity to the
\* normalised needle
Similarity ==
    {[name |-> n, x |-> normalise(n),
      r |-> ratio(normalise(n), normalise(call_arg.needle))] :
        n \in Range(Haystack(call_arg.kind))}

\* C18: a name whose normalised form is no normalised catalog name is never
\* resolved to an object: the call fails with BrotherQLUnknownId, and the
\* error lists the close matches (the best three of the names whose
\* similarity reaches the cutoff; for "QL-6000" they include "QL-600")
C18_UnknownIdListsCloseMatches ==
    (call_fn = "resolve" /\ NoKeyMatches) =>
        LET close == {s \in Similarity : AboveCutoff(s.r)}
            listed == {s \in close : s.name \in call_ret.listed}
        IN  /\ call_ret.err = "BrotherQLUnknownId"
            /\ call_ret.obj = <<>>
            /\ close # {} =>
                   /\ call_ret.listed = {s.name : s \in listed}
                   /\ Cardinality(listed) = Min(3, Cardinality(close))
                   /\ \A s \in listed, t \in close \ listed :
                          ScoredLess(t.r, t.x, s.r, s.x)
            /\ (call_arg.kind = "model"
                    /\ call_arg.needle
                           = <<"Q", "L", "-", "6", "0", "0", "0">>) =>
                   QL600 \in call_ret.listed

\* "QL-6000" has been rejected with QL-600, QL-700 and QL-800 listed
C18_Witness ==
    /\ call_fn = "resolve"
    /\ call_arg.kind = "model"
    /\ call_arg.needle = <<"Q", "L", "-", "6", "0", "0", "0">>
    /\ call_ret.err = "BrotherQLUnknownId"
    /\ call_ret.listed = {QL600, <<"Q", "L", "-", "7", "0", "0">>,
                          <<"Q", "L", "-", "8", "0", "0">>}

HasUrlPrefix(u) ==
    \/ startswith(u, Str_usb)
    \/ startswith(u, Str_tcp)
    \/ startswith(u, Str_lp_url)
    \/ startswith(u, Str_file)

PrefixBackend ==
    /\ startswith(call_arg.url, Str_usb) => call_ret.ret = "pyusb"
    /\ startswith(call_arg.url, Str_tcp) => call_ret.ret = "network"
    /\ startswith(call_arg.url, Str_lp_url) => call_ret.ret = "linux"
    /\ startswith(call_arg.url, Str_file) => call_ret.ret = "file"

\* C19 as claimed: the URL prefix selects the backend, and for a device
\* string without one of the four prefixes guess_backend_name returns
\* "file" or fails
C19_PrefixOrFile ==
    call_fn = "guess_backend_name" =>
        /\ PrefixBackend
        /\ ~HasUrlPrefix(call_arg.url) =>
               call_ret.err # "none" \/ call_ret.ret = "file"

\* C19 (amended): the URL prefix selects the backend; a string without one
\* of the four prefixes that starts with 0x selects pyusb, one that starts
\* with /dev/usb/ or lp selects linux, and for every other string
\* guess_backend_name returns "file" (the path is a file, or its directory
\* is accessible) or fails, and never returns another backend
C19_PrefixShortFormOrFile ==
    call_fn = "guess_backend_name" =>
        /\ PrefixBackend
        /\ ~HasUrlPrefix(call_arg.url) =>
               IF startswith(call_arg.url, Str_0x)
               THEN call_ret.ret = "pyusb"
               ELSE IF \/ startswith(call_arg.url, Str_dev_usb)
                       \/ startswith(call_arg.url, Str_lp)
               THEN call_ret.ret = "linux"
               ELSE \/ /\ call_ret.err = "none"
                       /\ call_ret.ret = "file"
                       /\ call_arg.fs.isfile \/ call_arg.fs.access
                       /\ ~call_arg.fs.oserror
                    \/ call_ret.err = "ValueError"

\* "out.bin" in an accessible directory has been taken for a file
C19_Witness ==
    /\ call_fn = "guess_backend_name"
    /\ call_arg.url = <<"o", "u", "t", ".", "b", "i", "n">>
    /\ ~call_arg.fs.isfile
    /\ call_arg.fs.access
    /\ call_ret.ret = "file"

\* "lp0" has selected the linux backend
C19_WitnessShortForm ==
    /\ call_fn = "guess_backend_name"
    /\ call_arg.url = <<"l", "p", "0">>
    /\ call_ret.ret = "linux"

\* the discovered devices with the vendor and product of the URL
SamePair(d) ==
    /\ d.usb_vendor_id = lower_str(call_arg.vendor)
    /\ d.usb_product_id = lower_str(call_arg.product)

NoSerial == call_arg.serial = <<>>

WrongSerial ==
    /\ ~NoSerial
    /\ \A i \in DOMAIN call_arg.devices :
           call_arg.devices[i].serial # call_arg.serial

UsbCalled ==
    call_fn \in {"device_url_to_device_infos", "device_url_to_usb_device"}

MatchesAsClaimed ==
    /\ (call_fn = "device_url_to_device_infos" /\ NoSerial) =>
           /\ call_ret.err = "none"
           /\ call_ret.infos = SelectSeq(call_arg.devices, SamePair)
           /\ Len(SelectSeq(call_arg.devices, SamePair)) = 1 =>
                  Len(call_ret.infos) = 1
    /\ (call_fn = "device_url_to_device_infos" /\ WrongSerial) =>
           /\ call_ret.err = "none"
           /\ call_ret.infos = <<>>

\* C20 as claimed: a URL without serial matches every discovered device
\* with its vendor and product; a URL whose serial no device has matches
\* none, and resolving it to a device fails with UnknownId
C20_WrongSerialUnknownId ==
    /\ MatchesAsClaimed
    /\ (call_fn = "device_url_to_usb_device" /\ WrongSerial) =>
           call_ret.err = "BrotherQLUnknownId"

\* C20 (amended): a URL without serial matches every discovered device
\* with its vendor and product; a URL whose serial no device has matches
\* none, and resolving it to a device fails with BrotherQLError
C20_WrongSerialNotFound ==
    /\ MatchesAsClaimed
    /\ (call_fn = "device_url_to_usb_device" /\ WrongSerial) =>
           call_ret.err = "BrotherQLError"

\* two printers of the same product are attached and the URL without
\* serial has matched both
C20_Witness ==
    /\ call_fn = "device_url_to_device_infos"
    /\ NoSerial
    /\ Len(call_arg.devices) = 2
    /\ call_ret.infos = call_arg.devices

\* a URL with a serial that no attached printer of the product has was
\* resolved
C20_WitnessWrongSerial ==
    /\ call_fn = "device_url_to_usb_device"
    /\ WrongSerial
    /\ Len(SelectSeq(call_arg.devices, SamePair)) >= 1
    /\ call_ret.err = "BrotherQLError"

\* an image was composed by Renderer._render_page, called directly or by
\* Spool.render
Produced ==
    /\ call_fn \in {"render_page", "render"}
    /\ call_ret.err = "none"

DieCutForms == {"DIE_CUT", "ROUND_DIE_CUT"}

\* C21: every image the render pipeline produces is device_pixels.w wide;
\* it is device_pixels.h high for a die-cut label and as high as the scaled
\* content plus device_pixels_padding_bottom for an endless label; the image
\* Spool.render hands to the encoder is number_bytes_per_row * 8 wide
C21_ImageSize ==
    Produced =>
        LET img == call_ret.image
            ro == CurrentOptions
        IN  /\ img.width = ro.device_pixels[1]
            /\ img.height =
                   IF call_arg.label.form_factor \in DieCutForms
                   THEN ro.device_pixels[2]
                   ELSE img.paste.h + ro.device_pixels_padding_bottom
            /\ call_fn = "render_page" =>
                   <<img.paste.w, img.paste.h>> = <<call_ret.w, call_ret.h>>
            /\ call_fn = "render" =>
                   img.width = number_bytes_per_row(model) * 8

\* Spool.render on QL-600 with label "62" got the image of a 696 x 300 page
C21_Witness ==
    /\ call_fn = "render"
    /\ call_ret.err = "none"
    /\ model.name = "QL-600"
    /\ call_arg.label.identifier = "62"
    /\ call_arg.page_size = <<696, 300>>
    /\ call_ret.image.width = 720
    /\ call_ret.image.height = 300

\* C22 as claimed: for every model of the catalog, each of its labels and
\* every page size, the scaled content fits the printable area and, pasted
\* at device_pixels_offs, lies inside the device canvas
C22_ContentInsideCanvas ==
    call_fn = "render_page" =>
        LET ro == CurrentOptions
            s == FitSize(ro, call_arg.page_size)
            canvas_h == IF is_endless(ro)
                        THEN s[2] + ro.device_pixels_padding_bottom
                        ELSE ro.device_pixels[2]
        IN  /\ s[1] <= ro.printable_pixels[1]
            /\ (~is_endless(ro)) => s[2] <= ro.printable_pixels[2]
            /\ 0 <= ro.device_pixels_offs[1]
            /\ ro.device_pixels_offs[1] + s[1] <= ro.device_pixels[1]
            /\ ro.device_pixels_offs[2] + s[2] <= canvas_h

\* C23 as claimed: with auto_rotate off and rotate 90 or 270, the content of
\* a page that is not square is fitted with the native width and height
\* swapped and differs in size from the content fitted with rotate 0
C23_ExplicitRotateApplied ==
    (/\ call_fn = "render_page"
     /\ call_ret.err = "none"
     /\ ~call_arg.auto_rotate
     /\ call_arg.rotate \in {90, 270}
     /\ call_arg.page_size[1] # call_arg.page_size[2]) =>
        LET ro == CurrentOptions
            W == call_arg.page_size[1]
            H == call_arg.page_size[2]
            unrotated == FitSize(render_options(model, call_arg.label, 0,
                                                FALSE), <<W, H>>)
        IN  /\ <<call_ret.w, call_ret.h>> = FitSize(ro, <<H, W>>)
            /\ <<call_ret.w, call_ret.h>> # unrotated

White == <<255, 255, 255>>

\* columns and rows next to the edges of the canvas and of the pasted
\* content
ProbeXs(img) ==
    {0, img.paste.x - 1, img.paste.x, img.paste.x + img.paste.w - 1,
     img.paste.x + img.paste.w, img.width - 1} \cap (0..(img.width - 1))

ProbeYs(img) ==
    {0, img.paste.y + img.paste.h - 1, img.paste.y + img.paste.h,
     img.height - 1} \cap (0..(img.height - 1))

\* C24 as claimed: under the default palette every pixel of the device
\* canvas outside the pasted content is white
C24_BackgroundWhite ==
    Produced =>
        LET img == call_ret.image
        IN  \A x \in ProbeXs(img), y \in ProbeYs(img) :
                (~Covered(img, x, y)) => Background(img) = White

\* C25 as claimed: the render options Spool.render_options builds for a
\* model of the catalog and one of its labels pass validate
C25_ValidationNeverFails ==
    /\ call_fn = "validate" => call_ret.ok
    /\ call_fn \in {"render_page", "render"} =>
           call_ret.err # "AssertionError"

\* C27: the media fields of every page are type 0x0B, the tape width and
\* the tape length for a die-cut or round die-cut label, type 0x0A
\* (P-touch models: 0x00), the tape width and length 0 for an endless
\* label, and the row count is the height of the page image; QL-600 with
\* label "62" and a page of 300 rows gives 0x0A, 62, 0, 300
C27_MediaFields ==
    (call_fn = "render" /\ call_ret.err = "none") =>
        LET l == call_arg.label
            md == call_ret.media
            ptouch == model.name \in PTNames \cup PTENames
        IN  /\ md.mtype = IF l.tape_size[2] > 0 THEN 11
                          ELSE IF ptouch THEN 0 ELSE 10
            /\ l.form_factor \in DieCutForms <=> md.mtype = 11
            /\ l.form_factor = "PTOUCH_ENDLESS" <=> md.mtype = 0
            /\ md.mwidth = l.tape_size[1]
            /\ md.mlength = l.tape_size[2]
            /\ md.mtype \in {0, 10} => md.mlength = 0
            /\ md.rnumber = call_ret.image.height
            /\ md.rnumber = IF l.form_factor \in DieCutForms
                            THEN l.dots_total[2]
                            ELSE FitSize(CurrentOptions,
                                         call_arg.page_size)[2]
            /\ (/\ model.name = "QL-600"
                /\ l.identifier = "62"
                /\ call_ret.image.height = 300) =>
                   /\ md.mtype = 10
                   /\ md.mwidth = 62
                   /\ md.mlength = 0
                   /\ md.rnumber = 300

\* the page of scenario S1 was rendered for QL-600 and label "62"
C27_Witness ==
    /\ call_fn = "render"
    /\ call_ret.err = "none"
    /\ model.name = "QL-600"
    /\ call_arg.label.identifier = "62"
    /\ call_arg.page_size = <<696, 300>>
    /\ call_ret.media.mtype = 10
    /\ call_ret.media.rnumber = 300

\* a die-cut label was rendered on a P-touch-free model: type 0x0B with
\* the tape length
C27_WitnessDieCut ==
    /\ call_fn = "render"
    /\ call_ret.err = "none"
    /\ call_arg.label.identifier = "17x54"
    /\ call_ret.media.mtype = 11
    /\ call_ret.media.mlength = 54
    /\ call_ret.media.rnumber = 636

\* C26: a model that lacks a capability still gets a complete job. No command
\* of a capability the model lacks is in the spool file (on a model without
\* cutting: no autocut and no cut_every, also with auto_cut set); every page
\* that was started holds the status request, media_and_quality and the
\* margins, and holds its print command exactly when it holds its raster
\* data; the page a render call ended with holds all five.
LackedOps(m) ==
    {op \in {"switch_mode", "autocut", "cut_every", "expanded_mode",
             "compression"} : ~Gate(m, op)}

C26_CompleteJobWithoutCapability ==
    spool_file =>
        /\ \A i \in 1..Len(spool_data) : spool_data[i].op \notin LackedOps(model)
        /\ \A p \in 1..pages :
               LET ops == {c.op : c \in {spool_data[i] : i \in
                               {j \in 1..Len(spool_data) :
                                    spool_data[j].page = p}}}
               IN  /\ {"status_information", "media_and_quality",
                       "margins"} \subseteq ops
                   /\ ("raster" \in ops) <=> ("print" \in ops)
                   /\ (lastOp = "render" /\ p = pages) => "print" \in ops

\* a two-page job of a model without cutting and compression, rendered with
\* auto_cut and compress set
C26_Witness ==
    /\ spool_file /\ lastOp = "render" /\ pages = 2
    /\ auto_cut /\ compress
    /\ {"autocut", "cut_every", "compression"} \subseteq LackedOps(model)
    /\ \A p \in 1..2 :
           \E i \in 1..Len(spool_data) :
               spool_data[i].page = p /\ spool_data[i].op = "print"

\* C28: a job printed with --no-cut does not cut the tape: it holds no
\* autocut and no cut_every command, and the cut_at_end bit (8) of every
\* expanded_mode command is clear.
C28_NoCutOmitsCut ==
    (call_fn = "print_cmd" /\ call_arg.no_cut) =>
        \A k \in 1..Len(call_ret.written) :
            \A i \in 1..Len(call_ret.written[k]) :
                LET c == call_ret.written[k][i]
                IN  /\ c.op \notin {"autocut", "cut_every"}
                    /\ c.op = "expanded_mode" => (c.arg \div 8) % 2 = 0

C29_WitnessCompletedFirst ==
    /\ pc = "exit"
    /\ status.did_print /\ status.ready_for_next_job
    /\ status.printer_state = "waiting"

\* an error reply after "Printing completed": no success
C29_WitnessErrorAfterCompleted ==
    /\ pc = "exit"
    /\ status.did_print /\ ~status.ready_for_next_job
    /\ status.outcome = "error"

\* C30: after preview or print has returned or raised, the spool file holds
\* what it held before and its position is at the end of the file, so the
\* render call that follows appends after everything written before and
\* overwrites nothing.
AfterPreviewOrPrint == {"preview", "preview_raised", "print", "print_raised"}

====
